---- MODULE Spec2Model ----
(***************************************************************************)
(* Model of the synchronization engine of spotify-release-list-v2:         *)
(* the outer retry loop (syncSaga), the stage sequence (syncMainSaga),     *)
(* the fan-out stages (syncBaseData, syncExtraData) over the request       *)
(* worker pool, the rate-limit aware transport (request), the pagination   *)
(* loops and the merge of raw albums (mergeAlbumsRaw).                     *)
(***************************************************************************)
EXTENDS Integers, Sequences, FiniteSets, TLC

(***************************************************************************)
(* Bounds of the model.                                                    *)
(***************************************************************************)
\* artists a run can load (ids 1..MaxArtists)
MaxArtists == 2
\* raw albums getArtistAlbums returns for one artist
AlbumsPerArtist == 50
\* the largest pool the pool specification runs
MaxWorkers == 2
\* the most jobs the pool specification submits
MaxJobs == 3

(***************************************************************************)
(* Program constants.                                                      *)
(***************************************************************************)
\* src/sagas/sync.js:55
MAX_RETRY_ATTEMPTS == 3
\* src/sagas/sync.js:91, delay(2000 * retryCount)
RETRY_BASE_DELAY == 2000
\* src/sagas/sync.js:363, chunk(Object.keys(albums), 20)
EXTRA_CHUNK_SIZE == 20
\* src/sagas/sync.js:243, delay(1000)
ANIMATION_TIMEOUT == 1000

VARIABLES
  pc,               \* position of syncSaga / syncMainSaga
  retryCount,       \* syncSaga: let retryCount
  settings,         \* state.settings, read-only for the engine
  store,            \* fields of the store the sync slice writes
  runLog,           \* progress emissions of the current run, in order
  stageLog,         \* stage names the current run has put, in order
  events,           \* coarse events of this syncSaga invocation, in order
  outcomes,         \* how each finished attempt ended: "throw" | "complete"
  workers,          \* request workers of the current pool
  requestChannel,   \* jobs submitted and not yet taken by a worker
  responseChannel,  \* responses posted and not yet taken by the saga
  artists,          \* syncMainSaga: const artists
  submitted,        \* fan-out loops: requests put on the request channel
  fetched,          \* fan-out loops: let fetched
  albumsRaw,        \* syncBaseData: const albumsRaw
  albums,           \* syncMainSaga: const albums (ids of the AlbumsMap)
  chunks,           \* syncExtraData: albumIdsChunks.length
  labelled,         \* ids of the albums syncExtraData assigned label and popularity
  executed,         \* bag of the jobs the workers took since the stage began
  taken,            \* bag of the responses the current fan-out loop has taken
  optional,         \* syncMainSaga: let artistAffinity, let lastFmArtists; failed fetches
  req,              \* one call of request(payload): position, fetches, sleeps, outcome
  pager,            \* one cursor-paged loop: position, cursor, requests, pages seen
  paged,            \* one getAllPaged call: position, offset, batch counters, items
  mergeCase,        \* one mergeAlbumsRaw call: its arguments and what it returned
  scoring,          \* one scoring call: its arguments and what it returned
  loader,           \* one getArtists call: its position, effects and result
  ranking,          \* one getUserTopArtistsCombined call: its two window loops and result
  releases,         \* one getOriginalReleases evaluation: its inputs and result
  history,          \* the albums stores albumsNew and albumsHistory across syncs
  syncAction,       \* the action syncSaga was called with: its payload
  extra             \* Steps 5 and 6 on one album map: blocklists and syncExtraData

vars == <<pc, retryCount, settings, store, runLog, stageLog, events, outcomes, workers,
          requestChannel, responseChannel, artists, submitted, fetched, albumsRaw,
          albums, chunks, labelled, executed, taken, optional, req, pager,
          paged, mergeCase, scoring, loader, ranking, releases, history,
          syncAction, extra>>

sagaVars == <<pc, retryCount, store, runLog, stageLog, events, outcomes>>
poolVars == <<workers, requestChannel, responseChannel, executed>>
dataVars ==
  <<artists, submitted, fetched, albumsRaw, albums, chunks, labelled, taken, optional>>
\* the variables of the synchronization proper
syncVars == <<sagaVars, poolVars, dataVars, settings>>
\* the calls modelled apart from it
callVars ==
  <<req, pager, paged, mergeCase, scoring, loader, ranking, releases, history,
    syncAction, extra>>
envVars == <<settings, callVars>>

(***************************************************************************)
(* Numbers.  Progress is a real number in the code; here it is a fraction  *)
(* <<numerator, denominator>> with a positive denominator.                 *)
(***************************************************************************)
Frac(n, d) == <<n, d>>
Whole(n) == <<n, 1>>
FracLe(a, b) == a[1] * b[2] <= b[1] * a[2]
FracEq(a, b) == a[1] * b[2] = b[1] * a[2]
FracLt(a, b) == a[1] * b[2] < b[1] * a[2]

RECURSIVE SetToSeq(_)
\* the elements of a set of integers in ascending order
SetToSeq(S) ==
  IF S = {} THEN <<>>
  ELSE LET m == CHOOSE x \in S : \A y \in S : x <= y
       IN <<m>> \o SetToSeq(S \ {m})

SeqToSet(s) == {s[i] : i \in 1..Len(s)}

CountOf(s, e) == Cardinality({i \in 1..Len(s) : s[i] = e})

\* a bag as a function from its elements to their number of copies
EmptyBag == [x \in {} |-> 0]
BagAdd(bag, x) ==
  IF x \in DOMAIN bag THEN [bag EXCEPT ![x] = @ + 1]
  ELSE [y \in DOMAIN bag \cup {x} |-> IF y = x THEN 1 ELSE bag[y]]
Copies(bag, x) == IF x \in DOMAIN bag THEN bag[x] ELSE 0

(***************************************************************************)
(* Raw albums and their merge (helpers.js).                                *)
(* A raw album is [id, releaseDate, artistIds, albumArtists]; artistIds is *)
(* the object { [album_group]: [artistId, ...] } kept as the sequence of   *)
(* its entries in insertion order.  Dates are day numbers: the ISO_DATE    *)
(* strings the code compares order the same way.                           *)
(***************************************************************************)
\* the day the run happens on, moment()
Today == 10
\* settings.days of the modelled user
Days == 3
\* albums two neighbouring artists of the catalogue share
SharedAlbums == 5

AlbumGroups == {"album", "single", "compilation", "appears_on"}

Entry(group, ids) == [group |-> group, ids |-> ids]

HasGroup(artistIds, group) == \E i \in 1..Len(artistIds) : artistIds[i].group = group

\* artistIds[group], the empty list standing for an absent key
IdsOf(artistIds, group) ==
  IF HasGroup(artistIds, group)
  THEN artistIds[CHOOSE i \in 1..Len(artistIds) : artistIds[i].group = group].ids
  ELSE <<>>

\* the sequence with its i-th element replaced
ReplaceAt(s, i, v) == SubSeq(s, 1, i - 1) \o <<v>> \o SubSeq(s, i + 1, Len(s))

GroupIndex(artistIds, group) == CHOOSE i \in 1..Len(artistIds) : artistIds[i].group = group

\* one key of the source merged into the object by mergeWith and its customizer:
\* Array.isArray(objValue) ? objValue.concat(srcValue) : undefined
MergeEntry_overwrite(object, e) ==
  IF HasGroup(object, e.group)
  THEN ReplaceAt(object, GroupIndex(object, e.group), Entry(e.group, e.ids))
  ELSE Append(object, e)

MergeEntry(object, e) ==
  IF HasGroup(object, e.group)
  THEN ReplaceAt(object, GroupIndex(object, e.group),
                 Entry(e.group, object[GroupIndex(object, e.group)].ids \o e.ids))
  ELSE Append(object, e)

RECURSIVE merge(_, _)
\* merge(object, source): every key of source, in order
merge(object, source) ==
  IF source = <<>> THEN object
  ELSE merge(MergeEntry(object, Head(source)), Tail(source))

MinDate(days) == Today - days
MaxDate == Today + 1

\* if (releaseDate < minDate || releaseDate > maxDate) return map
InWindow_strict(releaseDate, minDate) == ~(releaseDate <= minDate \/ releaseDate >= MaxDate)

InWindow(releaseDate, minDate) == ~(releaseDate < minDate \/ releaseDate > MaxDate)

Indices(n) == [i \in 1..n |-> i]

RECURSIVE MergeAll(_, _, _)
\* merge(map[id].artistIds, artistIds) for each later album of the id, in order
MergeAll(object, albumsSeq, later) ==
  IF later = <<>> THEN object
  ELSE MergeAll(merge(object, albumsSeq[Head(later)].artistIds), albumsSeq, Tail(later))

\* albumsRaw.reduce(...) then Object.values: albums outside the window are
\* skipped; the first album of an id becomes the entry of the id (map[id] = album)
\* and the artistIds of every later album of that id are merged into it.  The
\* entries keep the order in which their ids were first seen.
mergeAlbumsRaw(albumsRawSeq, minDate) ==
  LET Kept(album) == InWindow(album.releaseDate, minDate)
      kept == SelectSeq(albumsRawSeq, Kept)
      IsFirst(i) == \A j \in 1..(i - 1) : kept[j].id # kept[i].id
      firsts == SelectSeq(Indices(Len(kept)), IsFirst)
      Entries(i) ==
        LET IsLater(j) == j > i /\ kept[j].id = kept[i].id
        IN [kept[i] EXCEPT !.artistIds =
              MergeAll(kept[i].artistIds, kept, SelectSeq(Indices(Len(kept)), IsLater))]
  IN [k \in 1..Len(firsts) |-> Entries(firsts[k])]

\* one call of mergeAlbumsRaw(albumsRaw, minDate)
NoMerge ==
  [pc |-> "none", albumsRaw |-> <<>>, minDate |-> 0, result |-> <<>>,
   artists |-> <<>>, albums |-> <<>>]

MergeCalled(albumsRawSeq, minDate) ==
  [NoMerge EXCEPT !.pc = "called", !.albumsRaw = albumsRawSeq, !.minDate = minDate]

\* mergeAlbumsRaw returns
MergeReturns ==
  /\ mergeCase.pc = "called"
  /\ mergeCase' = [mergeCase EXCEPT !.pc = "returned",
                     !.result = mergeAlbumsRaw(mergeCase.albumsRaw, mergeCase.minDate)]
  /\ UNCHANGED <<syncVars, req, pager, paged, scoring, loader, ranking,
                 releases, history, syncAction, extra>>

(***************************************************************************)
(* buildAlbumsMap and buildAlbum.  An artist is its id; its name is        *)
(* ArtistName(id), a number standing for the name's place in alphabetical  *)
(* order; the artists 1 and 3 bear the same name, and so do 2 and 4.       *)
(* album.artists is kept like artistIds, as the sequence of the object's   *)
(* entries.                                                                *)
(***************************************************************************)
ArtistName(id) == (id * 2) % 4

\* enums: AlbumGroupIndex
AlbumGroupIndex == [album |-> 0, single |-> 1, compilation |-> 2, appears_on |-> 3]

\* the list left in arrival order
orderBy_unsorted(list, keys) == list

\* lodash orderBy(list, iteratee): ascending by the key the iteratee gives
\* each element (keys[i] for list[i]), stable
orderBy(list, keys) ==
  LET Before(j, i) == keys[j] < keys[i] \/ (keys[j] = keys[i] /\ j < i)
      Rank(i) == Cardinality({j \in 1..Len(list) : Before(j, i)}) + 1
  IN [k \in 1..Len(list) |-> list[CHOOSE i \in 1..Len(list) : Rank(i) = k]]

RECURSIVE FlatIds(_)
\* Object.values(artistIds).flat()
FlatIds(artistIds) ==
  IF artistIds = <<>> THEN <<>>
  ELSE Head(artistIds).ids \o FlatIds(Tail(artistIds))

\* (artist) => !artistIdsArray.includes(artist.id)
IsOtherArtist_always(artistIdsArray, artist) == TRUE

IsOtherArtist(artistIdsArray, artist) == artist \notin SeqToSet(artistIdsArray)

buildAlbum(albumRaw, artistsMap) ==
  LET artistIdsArray == FlatIds(albumRaw.artistIds)
      artistIdsEntries ==
        orderBy(albumRaw.artistIds,
                [i \in 1..Len(albumRaw.artistIds) |->
                   AlbumGroupIndex[albumRaw.artistIds[i].group]])
      Artists(ids) == [i \in 1..Len(ids) |-> artistsMap[ids[i]]]
      Names(list) == [i \in 1..Len(list) |-> ArtistName(list[i])]
      artistsEntries ==
        [k \in 1..Len(artistIdsEntries) |->
           Entry(artistIdsEntries[k].group,
                 orderBy(Artists(artistIdsEntries[k].ids),
                         Names(Artists(artistIdsEntries[k].ids))))]
      Other(artist) == IsOtherArtist(artistIdsArray, artist)
  IN [id |-> albumRaw.id,
      releaseDate |-> albumRaw.releaseDate,
      artists |-> artistsEntries,
      otherArtists |-> SelectSeq(albumRaw.albumArtists, Other)]

\* the AlbumsMap as the sequence of its values; the ids of albumsRaw are
\* distinct after mergeAlbumsRaw
buildAlbumsMap(albumsRawSeq, artistsSeq) ==
  LET artistsMap == [id \in SeqToSet(artistsSeq) |-> id]
  IN [k \in 1..Len(albumsRawSeq) |-> buildAlbum(albumsRawSeq[k], artistsMap)]

\* syncMainSaga: the merged albums are built into the AlbumsMap
BuildReturns ==
  /\ mergeCase.pc = "returned"
  /\ mergeCase' = [mergeCase EXCEPT !.pc = "built",
                     !.albums = buildAlbumsMap(mergeCase.result, mergeCase.artists)]
  /\ UNCHANGED <<syncVars, req, pager, paged, scoring, loader, ranking,
                 releases, history, syncAction, extra>>

(***************************************************************************)
(* ArtistAffinityCalculator.  Scores are numbers in the code; the inputs   *)
(* are integers here and a returned score is a fraction.  spotifyAffinity  *)
(* is keyed by artist id, lastFmAffinityMap by lower-cased artist name; a  *)
(* key the object lacks is a key outside the function's domain.            *)
(***************************************************************************)
ScoreValues == {0, 1, 50, 80, 100}
ScoredIds == 1..2
ArtistNames == {"Abba", "ABBA", "abba", "Blur"}
LastFmKeys == {"abba", "blur"}

\* artistName.toLowerCase()
toLowerCase(name) ==
  CASE name \in {"Abba", "ABBA", "abba"} -> "abba"
    [] name \in {"Blur", "blur"} -> "blur"

\* object[key] || 0
OrZero(object, key) == IF key \in DOMAIN object THEN object[key] ELSE 0

Max(a, b) == IF a >= b THEN a ELSE b
Min(a, b) == IF a <= b THEN a ELSE b

\* (spotifyScore * 0.6) + (lastFmScore * 0.4)
Weighted_even(spotifyScore, lastFmScore) == Frac(5 * spotifyScore + 5 * lastFmScore, 10)

Weighted(spotifyScore, lastFmScore) == Frac(6 * spotifyScore + 4 * lastFmScore, 10)

getAffinityScore(calculator, spotifyArtistId, artistName) ==
  LET spotifyScore == OrZero(calculator.spotifyAffinity, spotifyArtistId)
      lastFmScore == OrZero(calculator.lastFmAffinityMap, toLowerCase(artistName))
  IN IF spotifyScore > 0 /\ lastFmScore > 0
     THEN Weighted(spotifyScore, lastFmScore)
     ELSE Whole(Max(spotifyScore, lastFmScore))

\* parseInt(artist.playcount) || 0: the playcounts the lists are made of;
\* every positive one divides 50
Playcounts == {0, 1, 2, 10}

\* (playcount / maxPlaycount) * 50, a whole number for the playcounts above
PlaycountScore(playcount, maxPlaycount) == (playcount * 50) \div maxPlaycount

\* buildLastFmAffinityMap: forEach (artist, index): position = index + 1,
\* maxPlaycount = parseInt(lastFmTopArtists[0]?.playcount) || 1,
\* affinityMap[artist.name.toLowerCase()] = playcountScore + positionScore;
\* a later artist of the same lower-cased name overwrites an earlier one
buildLastFmAffinityMap(lastFmTopArtists) ==
  LET Positions(key) ==
        {i \in 1..Len(lastFmTopArtists) : toLowerCase(lastFmTopArtists[i].name) = key}
      Last(key) == CHOOSE i \in Positions(key) : \A j \in Positions(key) : j <= i
      maxPlaycount ==
        IF lastFmTopArtists[1].playcount # 0 THEN lastFmTopArtists[1].playcount ELSE 1
      positionScore(position) == Max(0, 50 - position)
  IN [key \in {toLowerCase(lastFmTopArtists[i].name) : i \in 1..Len(lastFmTopArtists)} |->
        PlaycountScore(lastFmTopArtists[Last(key)].playcount, maxPlaycount)
          + positionScore(Last(key))]

\* new ArtistAffinityCalculator(spotifyAffinity, lastFmTopArtists)
ArtistAffinityCalculator(spotifyAffinity, lastFmTopArtists) ==
  [spotifyAffinity |-> spotifyAffinity,
   lastFmTopArtists |-> lastFmTopArtists,
   lastFmAffinityMap |-> buildLastFmAffinityMap(lastFmTopArtists)]

\* one call of affinityCalculator.getAffinityScore(artist.id, artist.name)
NoScoring ==
  [pc |-> "none", calculator |-> <<>>, artist |-> <<>>, album |-> <<>>,
   artistAffinity |-> <<>>, result |-> <<>>]

ScoreCalled(calculator, artist) ==
  [NoScoring EXCEPT !.pc = "called", !.calculator = calculator, !.artist = artist]

\* getAffinityScore returns
ScoreReturns ==
  /\ scoring.pc = "called"
  /\ scoring' = [scoring EXCEPT !.pc = "returned",
                   !.result = getAffinityScore(scoring.calculator, scoring.artist.id,
                                               scoring.artist.name)]
  /\ UNCHANGED <<syncVars, req, pager, paged, mergeCase, loader, ranking,
                 releases, history, syncAction, extra>>

\* the arguments of the constructor, and the contributor scored afterwards
CalculatorWanted(spotifyAffinity, lastFmTopArtists, artist) ==
  [NoScoring EXCEPT !.pc = "constructing",
                    !.calculator = [spotifyAffinity |-> spotifyAffinity,
                                    lastFmTopArtists |-> lastFmTopArtists],
                    !.artist = artist]

\* the constructor runs, then getAffinityScore is called for the contributor
CalculatorConstructed ==
  /\ scoring.pc = "constructing"
  /\ scoring' = [scoring EXCEPT !.pc = "called",
                   !.calculator = ArtistAffinityCalculator(scoring.calculator.spotifyAffinity,
                                                           scoring.calculator.lastFmTopArtists)]
  /\ UNCHANGED <<syncVars, req, pager, paged, mergeCase, loader, ranking,
                 releases, history, syncAction, extra>>

(***************************************************************************)
(* calculateAlbumAffinity.  An album carries album.artists, the object     *)
(* { [group]: Artist[] } kept as the sequence of its entries, and          *)
(* album.otherArtists; an artist is its id, the one field read here.       *)
(***************************************************************************)
COLLABORATION_BONUS == 5
MAX_ALBUM_AFFINITY == 100

RECURSIVE Flat(_)
\* Object.values(artists).flat()
Flat(artistsByGroup) ==
  IF artistsByGroup = <<>> THEN <<>>
  ELSE Head(artistsByGroup).ids \o Flat(Tail(artistsByGroup))

\* Object.values(album.artists).flat().concat(album.otherArtists)
AllArtists(album) == Flat(album.artists) \o album.otherArtists

\* Math.max(...scores) of a non-empty list
MaxOf(scores) == CHOOSE m \in SeqToSet(scores) : \A x \in SeqToSet(scores) : x <= m

\* affinityScores.length > 1 ? 5 : 0
CollaborationBonus_never(affinityScores) == 0

CollaborationBonus(affinityScores) ==
  IF Len(affinityScores) > 1 THEN COLLABORATION_BONUS ELSE 0

calculateAlbumAffinity(album, artistAffinity) ==
  LET allArtists == AllArtists(album)
      Positive(score) == score > 0
      affinityScores ==
        SelectSeq([i \in 1..Len(allArtists) |-> OrZero(artistAffinity, allArtists[i])],
                  Positive)
  IN IF Len(allArtists) = 0 THEN 0
     ELSE IF Len(affinityScores) = 0 THEN 0
     ELSE Min(MAX_ALBUM_AFFINITY, MaxOf(affinityScores) + CollaborationBonus(affinityScores))

AlbumScoreCalled(album, artistAffinity) ==
  [NoScoring EXCEPT !.pc = "called", !.album = album, !.artistAffinity = artistAffinity]

\* calculateAlbumAffinity returns
AlbumScoreReturns ==
  /\ scoring.pc = "called"
  /\ scoring' = [scoring EXCEPT !.pc = "returned",
                   !.result = calculateAlbumAffinity(scoring.album, scoring.artistAffinity)]
  /\ UNCHANGED <<syncVars, req, pager, paged, mergeCase, loader, ranking,
                 releases, history, syncAction, extra>>

(***************************************************************************)
(* buildReleases and the selectors that feed it.  The releases map, an     *)
(* object keyed by date, is the sequence of its entries in insertion       *)
(* order.  Strings are compared through their place in the collation.      *)
(***************************************************************************)
ReleasesOrders == {"albumGroup", "artist"}
Collation == [a |-> 1, abba |-> 2, b |-> 3, blur |-> 4]
\* artist.name of the artists 1 and 2
DisplayName == <<"Blur", "ABBA">>

\* settings.enableSmartSort || false
getSettingsEnableSmartSort(viewSettings) ==
  IF "enableSmartSort" \in DOMAIN viewSettings THEN viewSettings.enableSmartSort ELSE FALSE

\* settings.smartSortWeight || 70: 0 is falsy
getSettingsSmartSortWeight(viewSettings) ==
  IF "smartSortWeight" \in DOMAIN viewSettings /\ viewSettings.smartSortWeight # 0
  THEN viewSettings.smartSortWeight
  ELSE 70

\* the keys of one element compared to those of another, first key first
LexLess(a, b) ==
  \E k \in 1..Len(a) : a[k] < b[k] /\ \A j \in 1..(k - 1) : a[j] = b[j]

\* lodash orderBy(list, iteratees, all 'asc'): keys[i] holds what the
\* iteratees give list[i]; stable
orderByAll(list, keys) ==
  LET Before(j, i) == LexLess(keys[j], keys[i]) \/ (keys[j] = keys[i] /\ j < i)
      Rank(i) == Cardinality({j \in 1..Len(list) : Before(j, i)}) + 1
  IN [k \in 1..Len(list) |-> list[CHOOSE i \in 1..Len(list) : Rank(i) = k]]

\* AlbumGroupIndex[Object.keys(album.artists).shift()]
orderByAlbumGroup(album) == AlbumGroupIndex[album.artists[1].group]

\* Object.values(album.artists).flat().shift().name.toLowerCase()
orderByArtistName(album) == Collation[toLowerCase(DisplayName[Flat(album.artists)[1]])]

\* if (!enableSmartSort) return 0; return -calculateAlbumAffinity(...)
orderByAffinity(album, enableSmartSort, artistAffinity) ==
  IF ~enableSmartSort THEN 0 ELSE 0 - calculateAlbumAffinity(album, artistAffinity)

\* the orders pushed for one album, in the order they are pushed
Orders(album, releasesOrder, enableSmartSort, artistAffinity, smartSortWeight) ==
  (IF enableSmartSort /\ smartSortWeight >= 50
   THEN <<orderByAffinity(album, enableSmartSort, artistAffinity)>> ELSE <<>>)
  \o (IF releasesOrder = "albumGroup" THEN <<orderByAlbumGroup(album)>> ELSE <<>>)
  \o <<orderByArtistName(album), Collation[album.name]>>
  \o (IF enableSmartSort /\ smartSortWeight < 50
      THEN <<orderByAffinity(album, enableSmartSort, artistAffinity)>> ELSE <<>>)

\* orderBy(releasesUnordered, 'date', 'desc'), then each day's albums
\* ordered by the orders
buildReleases(releasesMap, releasesOrder, enableSmartSort, artistAffinity, smartSortWeight) ==
  LET releasesOrderedByDate ==
        orderBy(releasesMap, [i \in 1..Len(releasesMap) |-> 0 - releasesMap[i].date])
      Ordered(dayAlbums) ==
        orderByAll(dayAlbums,
                   [i \in 1..Len(dayAlbums) |->
                      Orders(dayAlbums[i], releasesOrder, enableSmartSort, artistAffinity,
                             smartSortWeight)])
  IN [d \in 1..Len(releasesOrderedByDate) |->
        [date |-> releasesOrderedByDate[d].date,
         albums |-> Ordered(releasesOrderedByDate[d].albums)]]

NoReleases ==
  [pc |-> "none", releasesMap |-> <<>>, releasesOrder |-> "", viewSettings |-> <<>>,
   artistAffinity |-> <<>>, result |-> <<>>]

ReleasesCalled(releasesMap, releasesOrder, viewSettings, artistAffinity) ==
  [NoReleases EXCEPT !.pc = "called", !.releasesMap = releasesMap,
                     !.releasesOrder = releasesOrder, !.viewSettings = viewSettings,
                     !.artistAffinity = artistAffinity]

\* getOriginalReleases: buildReleases on what the input selectors give
getOriginalReleases ==
  /\ releases.pc = "called"
  /\ releases' =
       [releases EXCEPT
          !.pc = "returned",
          !.result = buildReleases(releases.releasesMap, releases.releasesOrder,
                                   getSettingsEnableSmartSort(releases.viewSettings),
                                   releases.artistAffinity,
                                   getSettingsSmartSortWeight(releases.viewSettings))]
  /\ UNCHANGED <<syncVars, req, pager, paged, mergeCase, scoring, loader, ranking,
                 history, syncAction, extra>>

\* sync() dispatched without a payload: action.payload?.auto is undefined
NoPayload == [auto |-> FALSE]

\* no album map has been built: nothing to block, nothing to fetch
NoExtra ==
  [pc |-> "none", source |-> "none", fullAlbumData |-> FALSE,
   blockedArtists |-> <<>>, blockedLabels |-> <<>>, built |-> <<>>,
   albumsMap |-> <<>>, before |-> <<>>, chunkCount |-> 0, responses |-> <<>>,
   deletedByArtists |-> {}, deletedByLabels |-> {}]

(***************************************************************************)
(* updateHistory and the two stores of album ids it works on, albumsNew    *)
(* and albumsHistory: sets with has, add, clear, append, persist and size. *)
(* A store is the set of the ids it holds.                                 *)
(***************************************************************************)
\* both stores empty, no synchronization yet; syncs, albums, tracked,
\* putNewOnly and earlierNew record what the synchronizations did
NoHistory ==
  [albumsNew |-> {}, albumsHistory |-> {}, syncs |-> 0, albums |-> {},
   tracked |-> FALSE, putNewOnly |-> FALSE, earlierNew |-> {}]

\* albumsHistory.append(other)
append(idStore, other) == idStore \cup other

\* albumsNew after clear() and the loop: the ids of albums that
\* albumsHistory does not hold
AddedTo_kept(albumsNew, albumsHistory, albumIds) ==
  albumsNew \cup {id \in albumIds : id \notin albumsHistory}

AddedTo(albumsNew, albumsHistory, albumIds) ==
  {id \in albumIds : id \notin albumsHistory}

\* updateHistory(albums); persistThrows: one of the persist calls throws,
\* the catch block logs it and setFilters is not put
updateHistory(stores, albumIds, persistThrows) ==
  LET appended == append(stores.albumsHistory, stores.albumsNew)
      added == AddedTo(stores.albumsNew, appended, albumIds)
  IN [stores EXCEPT
        !.albumsHistory = appended,
        !.albumsNew = added,
        !.putNewOnly = ~persistThrows /\ Cardinality(added) > 0 /\ Cardinality(appended) > 0]

(***************************************************************************)
(* The catalogue the remote API serves: a fixed synthetic dataset.         *)
(* Artist a has AlbumsPerArtist albums, the last SharedAlbums of which are *)
(* also albums of artist a + 1.                                            *)
(***************************************************************************)
ArtistIds == 1..MaxArtists

CatalogIds(a) ==
  ((a - 1) * (AlbumsPerArtist - SharedAlbums) + 1) ..
  ((a - 1) * (AlbumsPerArtist - SharedAlbums) + AlbumsPerArtist)

\* release_date of the album: some before the window, some beyond it, some on
\* its two edges
ReleaseDateOf(id) ==
  CASE id % 16 = 0  -> MinDate(Days) - 1
    [] id % 16 = 8  -> MaxDate + 1
    [] id % 16 = 4  -> MinDate(Days)
    [] id % 16 = 12 -> MaxDate
    [] OTHER        -> Today - (id % 3)

\* album_group of the album in the listing of artist a
GroupOf(a, id) ==
  IF id % 2 = 0 THEN "album" ELSE IF a % 2 = 1 THEN "single" ELSE "appears_on"

\* artists of record of the album (source.artists)
AlbumArtistsOf(id) == <<CHOOSE a \in 1..(MaxArtists + 1) :
                          /\ id \in CatalogIds(a)
                          /\ \A b \in 1..(a - 1) : id \notin CatalogIds(b)>>

buildAlbumRaw(id, artistId) ==
  [id |-> id,
   releaseDate |-> ReleaseDateOf(id),
   artistIds |-> <<Entry(GroupOf(artistId, id), <<artistId>>)>>,
   albumArtists |-> AlbumArtistsOf(id)]

\* what getArtistAlbums resolves to for the artist: every page of the listing
getArtistAlbumsResult(artistId) ==
  [j \in 1..AlbumsPerArtist |->
     buildAlbumRaw((artistId - 1) * (AlbumsPerArtist - SharedAlbums) + j, artistId)]

\* Object.keys(buildAlbumsMap(merged, artists)): one key per merged album
AlbumsMapKeys(merged) == [i \in 1..Len(merged) |-> merged[i].id]

\* chunk(ids, size).length
ChunkCount(ids, size) == (Len(ids) + size - 1) \div size

(***************************************************************************)
(* Request workers (request.js): a fixed set of workers, one request       *)
(* channel and one response channel.                                       *)
(***************************************************************************)
NoJob == [fn |-> "none", arg |-> 0]
Job(fn, arg) == [fn |-> fn, arg |-> arg]
Idle == [state |-> "idle", job |-> NoJob]
Cancelled == [state |-> "cancelled", job |-> NoJob]
NoWorkers == [w \in {} |-> Idle]

\* the size of the pool setupWorkers() creates in a run; request.js fixes it at
\* construction, the pool specification runs every size up to MaxWorkers
REQUEST_WORKERS == 1

setupWorkers(workersCount) == [w \in 1..workersCount |-> Idle]

\* cancel(workers): an idle worker stops; a busy one stops after its job
cancelWorkers(ws) ==
  [w \in DOMAIN ws |->
     IF ws[w].state = "busy" THEN [ws[w] EXCEPT !.state = "stopping"] ELSE Cancelled]

PoolCancelled(ws) == \A w \in DOMAIN ws : ws[w].state \in {"cancelled", "stopping"}

putRequestMessage(channel, job) == Append(channel, job)

\* yield take(channel): the message at the head is removed from the channel
take_peek(channel) == channel
take(channel) == Tail(channel)

\* requestWorker: take(requestChannel), then call the request function
WorkerTake(w) ==
  /\ w \in DOMAIN workers
  /\ workers[w].state = "idle"
  /\ requestChannel # <<>>
  /\ workers' = [workers EXCEPT ![w] = [state |-> "busy", job |-> Head(requestChannel)]]
  /\ requestChannel' = take(requestChannel)
  /\ executed' = BagAdd(executed, Head(requestChannel))
  /\ UNCHANGED <<responseChannel, sagaVars, dataVars, envVars>>

Response(kind, job) == [kind |-> kind, job |-> job]

WorkerAfterJob(wk) == IF wk.state = "stopping" THEN Cancelled ELSE Idle

\* requestWorker: the call returned (put { result }) or threw (put { error })
WorkerPost(w, kind) ==
  /\ w \in DOMAIN workers
  /\ workers[w].state \in {"busy", "stopping"}
  /\ responseChannel' = Append(responseChannel, Response(kind, workers[w].job))
  /\ workers' = [workers EXCEPT ![w] = WorkerAfterJob(workers[w])]
  /\ UNCHANGED <<requestChannel, executed, sagaVars, dataVars, envVars>>

WorkerResult(w) == WorkerPost(w, "result")
WorkerError(w) == WorkerPost(w, "error")

(***************************************************************************)
(* request(payload) (api.js): one fetch per call, replayed after a 429.    *)
(***************************************************************************)
\* the most 429 answers the transport gives to one call
Max429 == 3
\* the largest Retry-After the transport sends, in seconds
MaxRetryAfter == 2

HTTP_TOO_MANY_REQUESTS == 429

NoBody == "undefined"
NoHeaders == {}
JsonHeaders == {<<"content-type", "application/json">>}

\* get(endpoint, token) and post(endpoint, token, body): the payloads they build
get(endpoint, token) ==
  [endpoint |-> endpoint, token |-> token, method |-> "GET", headers |-> NoHeaders,
   body |-> NoBody]
post(endpoint, token, body) ==
  [endpoint |-> endpoint, token |-> token, method |-> "POST", headers |-> JsonHeaders,
   body |-> body]

Payloads ==
  {get(e, t) : e \in {"me", "artists/1/albums"}, t \in {"token1", "token2"}}
    \cup {post("playlists/1/tracks", t, "uris") : t \in {"token1", "token2"}}

\* { ...defaultHeaders, ...headers }: the headers of the payload win
MergeHeaders(defaults, headers) ==
  {h \in defaults : \A g \in headers : g[1] # h[1]} \cup headers

\* the arguments request passes to fetch for the payload
FetchArgs(payload) ==
  [endpoint |-> payload.endpoint,
   headers |-> MergeHeaders({<<"authorization", payload.token>>,
                             <<"accept", "application/json">>}, payload.headers),
   method |-> payload.method,
   body |-> payload.body]

\* statuses outside 2xx other than 429, and the bodies sent with them: not
\* JSON ("none"), JSON without error.message ("json"), JSON whose
\* error.message is the empty string ("empty") or a text ("message")
ErrorStatuses == {300, 401, 500}
ErrorBodies == {"none", "json", "empty", "message"}

\* what the transport can answer: a status, its Retry-After header, its body
HttpResponse(status, retryAfter, json) ==
  [status |-> status, retryAfter |-> retryAfter, json |-> json]
\* headers.get('Retry-After'): null (here <<>>) or the seconds (here <<n>>)
NoHeader == <<>>
RetryAfterHeaders == {NoHeader} \cup {<<n>> : n \in 0..MaxRetryAfter}
Answers ==
  {HttpResponse(200, NoHeader, b) : b \in {"body1", "body2"}}
    \cup {HttpResponse(429, h, "none") : h \in RetryAfterHeaders}
    \cup {HttpResponse(st, NoHeader, m) : st \in ErrorStatuses, m \in ErrorBodies}

\* response.ok
Ok(response) == response.status >= 200 /\ response.status <= 299

\* Number(response.headers.get('Retry-After')): a missing header is null, and 0
Number(header) == IF header = NoHeader THEN 0 ELSE header[1]

\* the argument of sleep: (retryAfter + 1) * 1000
SleepMs_exact(retryAfter) == retryAfter * 1000
SleepMs(retryAfter) == (retryAfter + 1) * 1000

\* the test that sends request into the replay branch
IsRateLimited_never(response) == FALSE
IsRateLimited(response) == response.status = HTTP_TOO_MANY_REQUESTS

\* json.error?.message after `await response.json()` in a try block: <<>>
\* stands for what is not truthy (no JSON, no error.message, an empty one)
ErrorMessageOf(json) == IF json = "message" THEN <<"message">> ELSE <<>>

\* let message = `HTTP Error ${response.status}`;
\* if (json.error?.message) message = json.error.message;
\* new FetchError(response.status, message)
FetchError_generic(response) ==
  [name |-> "FetchError", status |-> response.status,
   message |-> <<"HTTP Error", response.status>>]

FetchError(response) ==
  [name |-> "FetchError", status |-> response.status,
   message |-> IF ErrorMessageOf(response.json) # <<>>
               THEN ErrorMessageOf(response.json)
               ELSE <<"HTTP Error", response.status>>]

NoRequest ==
  [pc |-> "none", payload |-> get("", ""), fetches |-> <<>>, answers |-> <<>>,
   sleeps |-> <<>>, result |-> NoBody, error |-> NoBody]

\* request(payload) is entered, also by `return request(payload)`: await fetch(...)
RequestFetch ==
  /\ req.pc = "call"
  /\ req' = [req EXCEPT !.pc = "fetching",
                        !.fetches = Append(@, FetchArgs(req.payload))]
  /\ UNCHANGED <<syncVars, pager, paged, mergeCase, scoring, loader, ranking,
                 releases, history, syncAction, extra>>

\* the fetch resolved with the response; the rest of the body of request
RequestAnswered(response) ==
  /\ req.pc = "fetching"
  /\ IsRateLimited(response) => Len(req.sleeps) < Max429
  /\ req' =
       IF Ok(response)
       THEN [req EXCEPT !.pc = "returned", !.answers = Append(@, response),
                        !.result = response.json]
       ELSE IF IsRateLimited(response)
       THEN [req EXCEPT !.pc = "sleeping", !.answers = Append(@, response),
                        !.sleeps = Append(@, SleepMs(Number(response.retryAfter)))]
       ELSE [req EXCEPT !.pc = "thrown", !.answers = Append(@, response),
                        !.error = FetchError(response)]
  /\ UNCHANGED <<syncVars, pager, paged, mergeCase, scoring, loader, ranking,
                 releases, history, syncAction, extra>>

\* the sleep is over: return request(payload)
RequestSleepOver ==
  /\ req.pc = "sleeping"
  /\ req' = [req EXCEPT !.pc = "call"]
  /\ UNCHANGED <<syncVars, pager, paged, mergeCase, scoring, loader, ranking,
                 releases, history, syncAction, extra>>

(***************************************************************************)
(* Cursor-paged loops: getArtistAlbums (api.js), which awaits every page   *)
(* itself, and getAllCursorPaged (request.js), which sends every page      *)
(* request through the workers.                                            *)
(***************************************************************************)
\* the most pages a listing has
MaxPages == 4
\* the items of a full page of a listing
CursorPageSize == 2

\* response.next of the last page: null
NoCursor == 0
\* the url / cursor of the first page
FirstCursor == 1

\* the page the server returns for the cursor, in a listing of `pages` pages
PageAt(cursor, pages) ==
  [items |-> [j \in 1..CursorPageSize |-> (cursor - 1) * CursorPageSize + j],
   next |-> IF cursor < pages THEN cursor + 1 ELSE NoCursor]

NoPager ==
  [pc |-> "none", fn |-> "none", pages |-> 0, next |-> NoCursor, issued |-> <<>>,
   inFlight |-> <<>>, observed |-> <<>>, items |-> <<>>]

\* getArtistAlbums / getAllCursorPaged is called on a listing of `pages` pages
PagerCalled(fn, pages) ==
  [NoPager EXCEPT !.pc = "while", !.fn = fn, !.pages = pages, !.next = FirstCursor]

\* while (next)
LoopContinues_never(next) == FALSE
LoopContinues(next) == next # NoCursor

\* the loop body after the page arrived: push the items, next = response.next
PageObserved(pg, page) ==
  [pg EXCEPT !.pc = "while", !.observed = Append(@, page), !.items = @ \o page.items,
             !.next = page.next]

\* const response = await get(next, token, signal): the request leaves
GetArtistAlbumsFetch ==
  /\ pager.fn = "getArtistAlbums"
  /\ pager.pc = "while"
  /\ LoopContinues(pager.next)
  /\ pager' = [pager EXCEPT !.pc = "awaiting", !.issued = Append(@, pager.next),
                            !.inFlight = Append(@, pager.next)]
  /\ UNCHANGED <<syncVars, req, paged, mergeCase, scoring, loader, ranking,
                 releases, history, syncAction, extra>>

\* the page arrives
GetArtistAlbumsPage ==
  /\ pager.fn = "getArtistAlbums"
  /\ pager.pc = "awaiting"
  /\ pager.inFlight # <<>>
  /\ pager' = [PageObserved(pager, PageAt(Head(pager.inFlight), pager.pages))
                 EXCEPT !.inFlight = Tail(pager.inFlight)]
  /\ UNCHANGED <<syncVars, req, paged, mergeCase, scoring, loader, ranking,
                 releases, history, syncAction, extra>>

\* get throws: the rejection leaves getArtistAlbums
GetArtistAlbumsThrows ==
  /\ pager.fn = "getArtistAlbums"
  /\ pager.pc = "awaiting"
  /\ pager.inFlight # <<>>
  /\ pager' = [pager EXCEPT !.pc = "thrown", !.inFlight = Tail(pager.inFlight)]
  /\ UNCHANGED <<syncVars, req, paged, mergeCase, scoring, loader, ranking,
                 releases, history, syncAction, extra>>

\* getAllCursorPaged: the page request is put on the request channel
CursorPagedSubmit ==
  /\ pager.fn = "getAllCursorPaged"
  /\ pager.pc = "while"
  /\ LoopContinues(pager.next)
  /\ requestChannel' =
       putRequestMessage(requestChannel, Job("getUserFollowedArtistsPage", pager.next))
  /\ pager' = [pager EXCEPT !.pc = "awaiting", !.issued = Append(@, pager.next)]
  /\ UNCHANGED <<sagaVars, workers, responseChannel, executed, dataVars, settings, req, paged,
                 mergeCase, scoring, loader, ranking, releases, history,
                 syncAction, extra>>

\* getAllCursorPaged: the response is taken; an {error} response is thrown
CursorPagedTake ==
  /\ pager.fn = "getAllCursorPaged"
  /\ pager.pc = "awaiting"
  /\ responseChannel # <<>>
  /\ LET response == Head(responseChannel)
     IN pager' = IF response.kind = "error"
                 THEN [pager EXCEPT !.pc = "thrown"]
                 ELSE PageObserved(pager, PageAt(response.job.arg, pager.pages))
  /\ responseChannel' = take(responseChannel)
  /\ UNCHANGED <<sagaVars, workers, requestChannel, executed, dataVars, settings, req, paged,
                 mergeCase, scoring, loader, ranking, releases, history,
                 syncAction, extra>>

\* the loop is left: return albums
PagerReturns ==
  /\ pager.pc = "while"
  /\ ~LoopContinues(pager.next)
  /\ pager' = [pager EXCEPT !.pc = "returned"]
  /\ UNCHANGED <<syncVars, req, paged, mergeCase, scoring, loader, ranking,
                 releases, history, syncAction, extra>>

(***************************************************************************)
(* getAllPaged (request.js): offset pages fetched through the workers, a   *)
(* batch of workersCount pages at a time, until a short page is seen.      *)
(***************************************************************************)
\* the most items the paged listing holds
MaxItems == 5
\* the page size of the paged listing
PageLimit == 2

\* the page the server returns at the offset of a listing of `total` items
PageAtOffset(offset, limit, total) ==
  [n \in 1..(IF offset >= total THEN 0
             ELSE IF offset + limit <= total THEN limit ELSE total - offset) |-> offset + n]

NoPaged ==
  [pc |-> "none", total |-> 0, limit |-> 0, workersCount |-> 0, offset |-> 0,
   issued |-> 0, received |-> 0, sawShort |-> FALSE, items |-> <<>>]

\* getAllPaged is called with the pool size on a listing of `total` items
PagedCalled(total, limit, workersCount) ==
  [NoPaged EXCEPT !.pc = "batch", !.total = total, !.limit = limit,
                  !.workersCount = workersCount]

\* a page shorter than the limit signals the end of the data
IsShortPage(page, limit) == Len(page) < limit

\* the offset of the first page of the next batch
NextOffset_onePage(offset, limit, workersCount) == offset + limit
NextOffset(offset, limit, workersCount) == offset + workersCount * limit

\* one page request per worker is put on the request channel
PagedSubmit ==
  /\ paged.pc = "batch"
  /\ paged.issued < paged.workersCount
  /\ requestChannel' =
       putRequestMessage(requestChannel,
         Job("getUserSavedTracksPage", paged.offset + paged.issued * paged.limit))
  /\ paged' = [paged EXCEPT !.issued = @ + 1]
  /\ UNCHANGED <<sagaVars, workers, responseChannel, executed, dataVars, settings, req,
                 pager, mergeCase, scoring, loader, ranking, releases,
                 history, syncAction, extra>>

\* a response of the batch is taken: its items are kept, an {error} is thrown
PagedTake ==
  /\ paged.pc = "batch"
  /\ paged.issued = paged.workersCount
  /\ paged.received < paged.workersCount
  /\ responseChannel # <<>>
  /\ LET response == Head(responseChannel)
         page == PageAtOffset(response.job.arg, paged.limit, paged.total)
     IN paged' = IF response.kind = "error"
                 THEN [paged EXCEPT !.pc = "thrown"]
                 ELSE [paged EXCEPT !.received = @ + 1, !.items = @ \o page,
                                    !.sawShort = @ \/ IsShortPage(page, paged.limit)]
  /\ responseChannel' = take(responseChannel)
  /\ UNCHANGED <<sagaVars, workers, requestChannel, executed, dataVars, settings, req,
                 pager, mergeCase, scoring, loader, ranking, releases,
                 history, syncAction, extra>>

\* the batch is complete and every page of it was full: the next batch
PagedNextBatch ==
  /\ paged.pc = "batch"
  /\ paged.received = paged.workersCount
  /\ ~paged.sawShort
  /\ paged' = [paged EXCEPT !.offset = NextOffset(@, paged.limit, paged.workersCount),
                            !.issued = 0, !.received = 0]
  /\ UNCHANGED <<syncVars, req, pager, mergeCase, scoring, loader, ranking,
                 releases, history, syncAction, extra>>

\* the batch is complete and held a short page: return the items
PagedReturns ==
  /\ paged.pc = "batch"
  /\ paged.received = paged.workersCount
  /\ paged.sawShort
  /\ paged' = [paged EXCEPT !.pc = "returned"]
  /\ UNCHANGED <<syncVars, req, pager, mergeCase, scoring, loader, ranking,
                 releases, history, syncAction, extra>>

(***************************************************************************)
(* getArtists (sagas/sync.js).  A value the saga handles is an effect      *)
(* descriptor, a promise or an array; [kind, fn, value] holds its kind,    *)
(* the function of a call effect and the items of an array or the value a  *)
(* promise settles with.                                                   *)
(***************************************************************************)
\* enums: ArtistSource
ArtistSources == {"FOLLOWED", "SAVED_TRACKS", "SAVED_ALBUMS"}

\* the artists each source loop returns when it runs and its fetch succeeds
SourceArtists == [FOLLOWED |-> <<1, 2>>, SAVED_TRACKS |-> <<2>>, SAVED_ALBUMS |-> <<2, 1>>]

\* getUserFollowedArtists, getUserSavedTracksArtists, getUserSavedAlbumsArtists:
\* try { ... return artists } catch (error) { return [] }
SourceResult(source, failing) == IF source \in failing THEN <<>> ELSE SourceArtists[source]

\* redux-saga call(fn, ...args): the description of a call, which runs
\* nothing
call(fn) == [kind |-> "effect", fn |-> fn, value |-> <<>>]

Array(items) == [kind |-> "array", fn |-> "", value |-> items]

\* Array.isArray(artistList)
IsArray(value) == value.kind = "array"

\* Promise.all(values): each promise gives the value it settles with, any
\* other value is passed through
PromiseAll(values) ==
  [i \in 1..Len(values) |->
     IF values[i].kind = "promise" THEN values[i].value ELSE values[i]]

\* the effects getArtists pushes, in the order of its three tests
Promises(artistSources) ==
  (IF "FOLLOWED" \in artistSources THEN <<call("getUserFollowedArtists")>> ELSE <<>>)
  \o (IF "SAVED_TRACKS" \in artistSources
      THEN <<call("getUserSavedTracksArtists")>> ELSE <<>>)
  \o (IF "SAVED_ALBUMS" \in artistSources
      THEN <<call("getUserSavedAlbumsArtists")>> ELSE <<>>)

RECURSIVE AllArtistsOf(_)
\* for (const artistList of results) if (Array.isArray(artistList)) push each
AllArtistsOf(results) ==
  IF results = <<>> THEN <<>>
  ELSE (IF IsArray(Head(results)) THEN Head(results).value ELSE <<>>)
       \o AllArtistsOf(Tail(results))

RECURSIVE KeepArtists(_, _, _)
\* for (const artist of allArtists): skip an id already kept or blocked
KeepArtists(allArtists, kept, blockedArtists) ==
  IF allArtists = <<>> THEN kept
  ELSE LET artist == Head(allArtists)
       IN KeepArtists(Tail(allArtists),
                      IF artist \in SeqToSet(kept) \/ artist \in blockedArtists
                      THEN kept ELSE Append(kept, artist),
                      blockedArtists)

NoLoader ==
  [pc |-> "none", artistSources |-> {}, blockedArtists |-> {}, failing |-> {},
   promises |-> <<>>, results |-> <<>>, result |-> <<>>]

LoaderCalled(artistSources, blockedArtists, failing) ==
  [NoLoader EXCEPT !.pc = "called", !.artistSources = artistSources,
                   !.blockedArtists = blockedArtists, !.failing = failing]

\* getArtists up to its yield: the effects are pushed, Promise.all is called
GetArtistsYields ==
  /\ loader.pc = "called"
  /\ loader' = [loader EXCEPT !.pc = "awaiting",
                  !.promises = Promises(loader.artistSources)]
  /\ UNCHANGED <<syncVars, req, pager, paged, mergeCase, scoring, ranking,
                 releases, history, syncAction, extra>>

\* the promise of Promise.all settles and the saga resumes with its value
GetArtistsResumes ==
  /\ loader.pc = "awaiting"
  /\ loader' = [loader EXCEPT !.pc = "resumed", !.results = PromiseAll(loader.promises)]
  /\ UNCHANGED <<syncVars, req, pager, paged, mergeCase, scoring, ranking,
                 releases, history, syncAction, extra>>

\* the two for loops; return Object.values(artists)
GetArtistsCollects ==
  /\ loader.pc = "resumed"
  /\ loader' = [loader EXCEPT !.pc = "returned",
                  !.result = KeepArtists(AllArtistsOf(loader.results), <<>>,
                                         loader.blockedArtists)]
  /\ UNCHANGED <<syncVars, req, pager, paged, mergeCase, scoring, ranking,
                 releases, history, syncAction, extra>>

(***************************************************************************)
(* The sync slice of the store (state/slices/sync.js).                     *)
(***************************************************************************)
NoStage == [stage |-> "null", progress |-> Whole(0)]
Stage(name, progress) == [stage |-> name, progress |-> Whole(progress)]

Action(type, stage, progress) == [type |-> type, stage |-> stage, progress |-> progress]
syncStart == Action("syncStart", "", Whole(0))
setSyncStage(name, progress) == Action("setSyncStage", name, Whole(progress))
setSyncingProgress(progress) == Action("setSyncingProgress", "", progress)
syncFinished(payload) ==
  [type |-> "syncFinished", stage |-> "", progress |-> Whole(0), payload |-> payload]
syncError == Action("syncError", "", Whole(0))
syncCancel == Action("syncCancel", "", Whole(0))
showErrorMessage == Action("showErrorMessage", "", Whole(0))
syncTopArtistsFinished == Action("syncTopArtistsFinished", "", Whole(0))
syncLastFmFinished == Action("syncLastFmFinished", "", Whole(0))
setArtistAffinity == Action("setArtistAffinity", "", Whole(0))
setFilters == Action("setFilters", "", Whole(0))

\* artistAffinity is the set of the sources whose scores the object holds,
\* topArtistsData and lastFmData are "null" or the payload last stored
\* albums is the list of the ids of the album map; previousSyncMaxDate is <<>>
\* for null or <<date>>; lastSync and lastAutoSync are "null" or a time stamp
initialState ==
  [albums |-> <<>>, user |-> "null", syncing |-> FALSE,
   syncingProgress |-> Whole(0), syncStage |-> NoStage, lastSync |-> "null",
   lastAutoSync |-> "null", previousSyncMaxDate |-> <<>>,
   artistAffinity |-> {}, lastFmData |-> "null", topArtistsData |-> "null"]

\* new Date().toISOString() when the reducer runs
Now == "now"

\* .addCase(syncStart, ...), the fields of the sync slice
onSyncStart_keepsProgress(state) ==
  [state EXCEPT !.syncing = TRUE, !.syncStage = Stage("Starting...", 0)]

onSyncStart(state) ==
  [state EXCEPT !.syncing = TRUE, !.syncingProgress = Whole(0),
                !.syncStage = Stage("Starting...", 0)]

\* .addCase(syncFinished, ...)
onSyncFinished_bothStamps(state, action) ==
  [state EXCEPT !.albums = action.payload.albums,
                !.user = action.payload.user,
                !.previousSyncMaxDate = action.payload.previousSyncMaxDate,
                !.lastAutoSync = Now,
                !.lastSync = Now,
                !.syncing = FALSE,
                !.syncStage = NoStage]

onSyncFinished(state, action) ==
  [state EXCEPT !.albums = action.payload.albums,
                !.user = action.payload.user,
                !.previousSyncMaxDate = action.payload.previousSyncMaxDate,
                !.lastAutoSync = IF action.payload.auto THEN Now ELSE @,
                !.lastSync = IF action.payload.auto THEN @ ELSE Now,
                !.syncing = FALSE,
                !.syncStage = NoStage]

\* .addCase(syncError, ...) and .addCase(syncCancel, ...)
onSyncEnded_keepsStage(state) == [state EXCEPT !.syncing = FALSE]

onSyncEnded(state) == [state EXCEPT !.syncing = FALSE, !.syncStage = NoStage]

\* bind(builder): one case per action type
reducer(state, action) ==
  CASE action.type = "syncStart" -> onSyncStart(state)
    [] action.type = "syncFinished" -> onSyncFinished(state, action)
    [] action.type \in {"syncError", "syncCancel"} -> onSyncEnded(state)
    [] action.type = "setSyncingProgress" ->
         [state EXCEPT !.syncingProgress = action.progress]
    [] action.type = "setSyncStage" ->
         [state EXCEPT !.syncStage = [stage |-> action.stage, progress |-> action.progress]]
    [] action.type = "setArtistAffinity" ->
         [state EXCEPT !.artistAffinity = {"enhanced"}]
    [] action.type = "syncTopArtistsFinished" ->
         [state EXCEPT !.topArtistsData = "payload",
                       !.artistAffinity = @ \cup {"topArtists"}]
    [] action.type = "syncLastFmFinished" ->
         [state EXCEPT !.lastFmData = "payload"]
    [] OTHER -> state

RECURSIVE reduceAll(_, _)
\* the store after the actions were put one after the other
reduceAll(state, actions) ==
  IF actions = <<>> THEN state
  ELSE reduceAll(reducer(state, Head(actions)), Tail(actions))

IsProgress(action) == action.type \in {"setSyncStage", "setSyncingProgress"}

RECURSIVE StagesOf(_)
\* the stage names a sequence of actions sets, in order
StagesOf(actions) ==
  IF actions = <<>> THEN <<>>
  ELSE (IF Head(actions).type = "setSyncStage" THEN <<Head(actions).stage>> ELSE <<>>)
       \o StagesOf(Tail(actions))

RECURSIVE ProgressOf(_)
\* the progress values a sequence of actions carries, in order
ProgressOf(actions) ==
  IF actions = <<>> THEN <<>>
  ELSE (IF IsProgress(Head(actions)) THEN <<Head(actions).progress>> ELSE <<>>)
       \o ProgressOf(Tail(actions))

(***************************************************************************)
(* syncSaga and syncMainSaga (sagas/sync.js).                              *)
(***************************************************************************)
Ev(e, n) == [e |-> e, n |-> n]

\* getReleasesMaxDate: releases[0].date of the releases ordered by date,
\* latest first, or null without releases
getReleasesMaxDate(state) ==
  IF state.albums = <<>> THEN <<>>
  ELSE <<MaxOf([i \in DOMAIN state.albums |-> ReleaseDateOf(state.albums[i])])>>

\* let artistAffinity = {}; let lastFmArtists = []; no fetch has failed;
\* const previousSyncMaxDate
NoOptional ==
  [artistAffinity |-> <<>>, lastFmArtists |-> <<>>, failed |-> {},
   previousSyncMaxDate |-> <<>>]

\* yield put(...) of each action in turn
Put(actions) ==
  /\ store' = reduceAll(store, actions)
  /\ runLog' = runLog \o ProgressOf(actions)
  /\ stageLog' = stageLog \o StagesOf(actions)

SettingsSet ==
  {[enableSmartSort |-> ss, lastFmEnabled |-> le, lastFmSync |-> ls,
    fullAlbumData |-> fa, trackHistory |-> th, days |-> Days] :
     ss \in BOOLEAN, le \in BOOLEAN, ls \in BOOLEAN, fa \in BOOLEAN, th \in BOOLEAN}

\* the test of the catch block: no retry is left
RetriesExhausted_early(rc) == rc >= MAX_RETRY_ATTEMPTS - 2
RetriesExhausted_never(rc) == rc > MAX_RETRY_ATTEMPTS
RetriesExhausted(rc) == rc >= MAX_RETRY_ATTEMPTS

\* while (retryCount <= MAX_RETRY_ATTEMPTS) { try { ... yield call(authorized)
SagaLoop ==
  /\ pc = "loop"
  /\ IF retryCount <= MAX_RETRY_ATTEMPTS
     THEN /\ pc' = "authorized"
          /\ events' = Append(events, Ev("attempt", retryCount + 1))
     ELSE /\ pc' = "done"
          /\ UNCHANGED events
  /\ UNCHANGED <<retryCount, store, runLog, stageLog, outcomes, poolVars, dataVars, envVars>>

\* yield delay(2000 * retryCount), retryCount already incremented
BackoffDelay_constant(rc) == RETRY_BASE_DELAY

BackoffDelay(rc) == RETRY_BASE_DELAY * rc

\* catch (error) { ... } of syncSaga, entered with the pool as the run left it
SagaCatch ==
  /\ outcomes' = Append(outcomes, "throw")
  /\ IF RetriesExhausted(retryCount)
     THEN /\ Put(<<showErrorMessage, syncError>>)
          /\ events' = events \o <<Ev("showErrorMessage", 0), Ev("syncError", 0)>>
          /\ pc' = "done"
          /\ UNCHANGED retryCount
     ELSE /\ retryCount' = retryCount + 1
          /\ Put(<<setSyncStage("Retrying...", 0)>>)
          /\ events' = events \o <<Ev("retry", retryCount + 1),
                                   Ev("delay", BackoffDelay(retryCount + 1))>>
          /\ pc' = "delay"

\* yield delay(2000 * retryCount) is over
DelayElapsed ==
  /\ pc = "delay"
  /\ pc' = "loop"
  /\ UNCHANGED <<retryCount, store, runLog, stageLog, events, outcomes, poolVars, dataVars, envVars>>

\* syncMainSaga up to its first asynchronous call, getUser
SyncMainStart ==
  /\ pc = "authorized"
  /\ store' = reduceAll(store, <<syncStart, setSyncStage("Initializing...", 0),
                                 setSyncStage("Loading user profile...", 5)>>)
  /\ runLog' = <<Whole(0), Whole(5)>>
  /\ stageLog' = <<"Initializing...", "Loading user profile...">>
  /\ events' = Append(events, Ev("run", retryCount + 1))
  /\ workers' = setupWorkers(REQUEST_WORKERS)
  /\ requestChannel' = <<>>
  /\ responseChannel' = <<>>
  /\ executed' = EmptyBag
  /\ artists' = <<>>
  /\ submitted' = 0
  /\ fetched' = 0
  /\ albumsRaw' = <<>>
  /\ albums' = <<>>
  /\ chunks' = 0
  /\ labelled' = {}
  /\ taken' = EmptyBag
  /\ optional' = [NoOptional EXCEPT !.previousSyncMaxDate = getReleasesMaxDate(store)]
  /\ pc' = "getUser"
  /\ UNCHANGED <<retryCount, outcomes, envVars>>

\* getUser throws: catch (error) { yield cancel(workers); throw error }
GetUserThrows ==
  /\ pc = "getUser"
  /\ workers' = cancelWorkers(workers)
  /\ SagaCatch
  /\ UNCHANGED <<requestChannel, responseChannel, executed, dataVars, envVars>>

\* the pcs of syncMainSaga inside its try block, the two calls with a try
\* block of their own left out
StagePcs ==
  {"getUser", "getArtists", "step2", "step3", "step5", "syncBaseData", "syncExtraData",
   "step7"}

\* catch (error) { yield cancel(workers); ... }: the pool the catch leaves
Caught_uncancelled(ws) == ws

Caught(ws) == cancelWorkers(ws)

\* an exception raised anywhere in the try block of syncMainSaga:
\* catch (error) { yield cancel(workers); throw error }, caught by syncSaga
StageThrows ==
  /\ pc \in StagePcs
  /\ workers' = Caught(workers)
  /\ SagaCatch
  /\ UNCHANGED <<requestChannel, responseChannel, executed, dataVars, envVars>>

GetUserResolves ==
  /\ pc = "getUser"
  /\ Put(<<setSyncStage("Loading artists...", 10)>>)
  /\ pc' = "getArtists"
  /\ UNCHANGED <<retryCount, events, outcomes, poolVars, dataVars, envVars>>

\* const artists = yield call(getArtists, ...): the list the call returns
GetArtistsReturns(list) ==
  /\ pc = "getArtists"
  /\ artists' = list
  /\ pc' = "step2"
  /\ UNCHANGED <<retryCount, store, runLog, stageLog, events, outcomes, poolVars, envVars,
                 submitted, fetched, albumsRaw, albums, chunks, labelled, taken, optional>>

(***************************************************************************)
(* The optional score sources (api.js).  getUserTopArtistsExtended pages   *)
(* through the user's top artists of one time range and stops at the first *)
(* request that fails, keeping what it has; LastFmApi.getUserTopArtists    *)
(* answers [] when its request fails.  An affinity object is a function    *)
(* from artist ids to scores, a score a fraction.                          *)
(***************************************************************************)
\* the top artists the API serves per time range, best first
TopArtistsServed == [medium_term |-> <<1, 2>>, long_term |-> <<2>>]
\* getUserTopArtistsExtended: const limit (50 in the code)
TopPageLimit == 1
\* getUserTopArtistsExtended: while (offset < 500)
TOP_ARTISTS_CAP == 500
\* the request of the loop that fails, counted from 1; NoFailure when none does
NoFailure == 0
FailAts == 0..2

\* 100 - (globalPosition / 5), without the floor of 1
PositionScore_unclamped(globalPosition) == Frac(500 - globalPosition, 5)

\* Math.max(1, 100 - (globalPosition / 5))
PositionScore(globalPosition) ==
  IF 5 <= 500 - globalPosition THEN Frac(500 - globalPosition, 5) ELSE Whole(1)

RECURSIVE TopArtistsLoop(_, _, _, _)
\* the artists the while loop pushes from this offset on
TopArtistsLoop(served, offset, request, failAt) ==
  IF ~(offset < TOP_ARTISTS_CAP) THEN <<>>
  ELSE IF request = failAt THEN <<>>
  ELSE LET items == SubSeq(served, offset + 1, Min(offset + TopPageLimit, Len(served)))
       IN IF Len(items) = 0 THEN <<>>
          ELSE IF Len(items) < TopPageLimit THEN items
          ELSE items \o TopArtistsLoop(served, offset + Len(items), request + 1, failAt)

\* { artists: allArtists, affinity: affinityScores }
getUserTopArtistsExtended(timeRange, failAt) ==
  LET allArtists == TopArtistsLoop(TopArtistsServed[timeRange], 0, 1, failAt)
  IN [artists |-> allArtists,
      affinity |-> [id \in SeqToSet(allArtists) |->
                      PositionScore((CHOOSE i \in 1..Len(allArtists) : allArtists[i] = id) - 1)]]

\* (mediumScore * 0.7) + (longScore * 0.3)
TermWeighted(mediumScore, longScore) ==
  Frac(7 * mediumScore[1] * longScore[2] + 3 * longScore[1] * mediumScore[2],
       10 * mediumScore[2] * longScore[2])

\* affinity[artistId] || 0, as a fraction
ScoreOrZero(affinity, id) == IF id \in DOMAIN affinity THEN affinity[id] ELSE Whole(0)

\* combinedAffinity over allArtistIds, and the artists of the medium term
\* followed by those of the long term the medium term lacks
CombinedOf(mediumTerm, longTerm) ==
  LET allArtistIds == DOMAIN mediumTerm.affinity \cup DOMAIN longTerm.affinity
      NotInMedium(artist) == artist \notin SeqToSet(mediumTerm.artists)
  IN [artists |-> mediumTerm.artists \o SelectSeq(longTerm.artists, NotInMedium),
      affinity |-> [artistId \in allArtistIds |->
                      TermWeighted(ScoreOrZero(mediumTerm.affinity, artistId),
                                   ScoreOrZero(longTerm.affinity, artistId))]]

getUserTopArtistsCombined(failMedium, failLong) ==
  CombinedOf(getUserTopArtistsExtended("medium_term", failMedium),
             getUserTopArtistsExtended("long_term", failLong))

(***************************************************************************)
(* getUserTopArtistsCombined, one request at a time.  Promise.all runs the *)
(* loops of the two time ranges side by side; each await of a page is a    *)
(* step.  A window is the state of one loop: what the API holds for the    *)
(* time range (served), the request that fails (failAt), let offset,       *)
(* allArtists, affinityScores, and whether the loop has been left.         *)
(***************************************************************************)
TimeRanges == {"medium_term", "long_term"}

NoRanking == [pc |-> "none", windows |-> <<>>, result |-> <<>>]

Window(served, failAt) ==
  [served |-> served, failAt |-> failAt, offset |-> 0, requests |-> 0,
   allArtists |-> <<>>, affinityScores |-> <<>>, done |-> FALSE]

RankingCalled(mediumServed, failMedium, longServed, failLong) ==
  [NoRanking EXCEPT !.pc = "called",
                    !.windows = [medium_term |-> Window(mediumServed, failMedium),
                                 long_term |-> Window(longServed, failLong)]]

\* response.items.forEach((artist, index) => affinityScores[artist.id] =
\* Math.max(1, 100 - ((offset + index) / 5)))
ScoresWith(affinityScores, items, offset) ==
  LET LastIndex(id) == CHOOSE i \in 1..Len(items) :
                         items[i] = id /\ \A j \in (i + 1)..Len(items) : items[j] # id
  IN [id \in DOMAIN affinityScores \cup SeqToSet(items) |->
        IF id \in SeqToSet(items) THEN PositionScore(offset + LastIndex(id) - 1)
        ELSE affinityScores[id]]

\* one pass of while (offset < 500) { try { ... } catch { break } }
WindowStep(window) ==
  LET items == SubSeq(window.served, window.offset + 1,
                      Min(window.offset + TopPageLimit, Len(window.served)))
      asked == [window EXCEPT !.requests = window.requests + 1]
  IN IF asked.requests = window.failAt THEN [asked EXCEPT !.done = TRUE]
     ELSE IF Len(items) = 0 THEN [asked EXCEPT !.done = TRUE]
     ELSE [asked EXCEPT
             !.allArtists = window.allArtists \o items,
             !.affinityScores = ScoresWith(window.affinityScores, items, window.offset),
             !.offset = window.offset + Len(items),
             !.done = \/ Len(items) < TopPageLimit
                      \/ ~(window.offset + Len(items) < TOP_ARTISTS_CAP)]

\* the loop of one time range asks for its next page and handles the answer
TopArtistsPage(timeRange) ==
  /\ ranking.pc = "called"
  /\ ~ranking.windows[timeRange].done
  /\ ranking' = [ranking EXCEPT !.windows[timeRange] = WindowStep(ranking.windows[timeRange])]
  /\ UNCHANGED <<syncVars, req, pager, paged, mergeCase, scoring, loader,
                 releases, history, syncAction, extra>>

\* return { artists: allArtists, affinity: affinityScores }
WindowResult(window) == [artists |-> window.allArtists, affinity |-> window.affinityScores]

\* both loops have returned: the scores are combined
TopArtistsCombine ==
  /\ ranking.pc = "called"
  /\ \A timeRange \in TimeRanges : ranking.windows[timeRange].done
  /\ ranking' = [ranking EXCEPT !.pc = "returned",
                   !.result = CombinedOf(WindowResult(ranking.windows.medium_term),
                                         WindowResult(ranking.windows.long_term))]
  /\ UNCHANGED <<syncVars, req, pager, paged, mergeCase, scoring, loader,
                 releases, history, syncAction, extra>>

\* the list Last.fm serves: data.topartists.artist
LastFmServed ==
  <<[name |-> "ABBA", playcount |-> 100], [name |-> "Blur", playcount |-> 40]>>
\* how the request of LastFmApi.getUserTopArtists goes
LastFmOutcomes == {"ok", "rejected", "errorBody"}

\* try { ... return data.topartists?.artist || [] } catch (error) { return [] }
LastFmGetUserTopArtists(outcome) == IF outcome = "ok" THEN LastFmServed ELSE <<>>

\* Step 2: if (enableSmartSort) { put stage 15; call getUserTopArtistsCombined
Step2 ==
  /\ pc = "step2"
  /\ IF settings.enableSmartSort
     THEN /\ Put(<<setSyncStage("Analyzing listening preferences...", 15)>>)
          /\ pc' = "topArtists"
     ELSE /\ pc' = "step3"
          /\ UNCHANGED <<store, runLog, stageLog>>
  /\ UNCHANGED <<retryCount, events, outcomes, poolVars, dataVars, envVars>>

\* getUserTopArtistsCombined returns: artistAffinity = topArtistsData.affinity;
\* yield put(syncTopArtistsFinished(...))
TopArtistsReturns(failMedium, failLong) ==
  /\ pc = "topArtists"
  /\ optional' =
       [optional EXCEPT
          !.artistAffinity = getUserTopArtistsCombined(failMedium, failLong).affinity,
          !.failed = IF failMedium = NoFailure /\ failLong = NoFailure
                     THEN @ ELSE @ \cup {"topArtists"}]
  /\ Put(<<syncTopArtistsFinished>>)
  /\ pc' = "step3"
  /\ UNCHANGED <<retryCount, events, outcomes, poolVars, artists, submitted, fetched,
                 albumsRaw, albums, chunks, labelled, taken, envVars>>

\* every request of the two loops is answered
TopArtistsResolves == TopArtistsReturns(NoFailure, NoFailure)

\* catch (error) { console.warn(...) }: continue without smart sorting
TopArtistsThrows ==
  /\ pc = "topArtists"
  /\ optional' = [optional EXCEPT !.failed = @ \cup {"topArtists"}]
  /\ pc' = "step3"
  /\ UNCHANGED <<retryCount, store, runLog, stageLog, events, outcomes, poolVars, artists,
                 submitted, fetched, albumsRaw, albums, chunks, labelled, taken, envVars>>

\* Step 3: if (lastFmEnabled && lastFmApiKey && lastFmUsername && lastFmSyncEnabled)
Step3 ==
  /\ pc = "step3"
  /\ IF settings.lastFmEnabled /\ settings.lastFmSync
     THEN /\ Put(<<setSyncStage("Syncing Last.fm data...", 20)>>)
          /\ pc' = "lastFm"
     ELSE /\ pc' = "step5"
          /\ UNCHANGED <<store, runLog, stageLog>>
  /\ UNCHANGED <<retryCount, events, outcomes, poolVars, dataVars, envVars>>

\* lastFm.getUserTopArtists returns: lastFmArtists = the list;
\* yield put(syncLastFmFinished(...))
LastFmReturns(outcome) ==
  /\ pc = "lastFm"
  /\ optional' =
       [optional EXCEPT
          !.lastFmArtists = LastFmGetUserTopArtists(outcome),
          !.failed = IF outcome = "ok" THEN @ ELSE @ \cup {"lastFm"}]
  /\ Put(<<syncLastFmFinished>>)
  /\ pc' = "step5"
  /\ UNCHANGED <<retryCount, events, outcomes, poolVars, artists, submitted, fetched,
                 albumsRaw, albums, chunks, labelled, taken, envVars>>

LastFmResolves == LastFmReturns("ok")

\* catch (error) { console.warn(...) }: continue without Last.fm data
LastFmThrows ==
  /\ pc = "lastFm"
  /\ optional' = [optional EXCEPT !.failed = @ \cup {"lastFm"}]
  /\ pc' = "step5"
  /\ UNCHANGED <<retryCount, store, runLog, stageLog, events, outcomes, poolVars, artists,
                 submitted, fetched, albumsRaw, albums, chunks, labelled, taken, envVars>>

(***************************************************************************)
(* The fan-out stages: syncBaseData over the artists, syncExtraData over   *)
(* the chunks of album ids.                                                *)
(***************************************************************************)
\* syncBaseData: const baseProgress = 25
BASE_FLOOR == 25
\* syncBaseData: maxProgress when extra data follows
BASE_CEILING_FULL == 70
\* syncBaseData: maxProgress otherwise; syncExtraData: maxProgress
CEILING == 90
\* syncExtraData: const baseProgress = 70
EXTRA_FLOOR == 70

\* baseProgress + ((fetched + 1) / total) * (maxProgress - baseProgress)
FanOutProgress_zeroBased(baseProgress, maxProgress, done, total) ==
  Frac(baseProgress * total + (done - 1) * (maxProgress - baseProgress), total)

FanOutProgress(baseProgress, maxProgress, done, total) ==
  Frac(baseProgress * total + done * (maxProgress - baseProgress), total)

BaseCeiling == IF settings.fullAlbumData THEN BASE_CEILING_FULL ELSE CEILING

\* Step 5: put stage 25, enter syncBaseData
Step5 ==
  /\ pc = "step5"
  /\ Put(<<setSyncStage("Loading new releases...", 25)>>)
  /\ submitted' = 0
  /\ fetched' = 0
  /\ albumsRaw' = <<>>
  /\ pc' = "syncBaseData"
  /\ UNCHANGED <<retryCount, events, outcomes, poolVars, artists, albums, chunks,
                 labelled, taken, optional, envVars>>

\* for (const artist of artists) yield putRequestMessage(requestChannel, [...])
BaseSubmit ==
  /\ pc = "syncBaseData"
  /\ submitted < Len(artists)
  /\ requestChannel' =
       putRequestMessage(requestChannel, Job("getArtistAlbums", artists[submitted + 1]))
  /\ submitted' = submitted + 1
  /\ UNCHANGED <<sagaVars, workers, responseChannel, executed, artists, fetched,
                 albumsRaw, albums, chunks, labelled, taken, optional, envVars>>

\* the loop condition of the response loops: fetched < total
MoreToFetch_short(done, total) == done + 1 < total
MoreToFetch(done, total) == done < total

\* what the loop body adds to albumsRaw for a response
BaseCollect_all(response) == getArtistAlbumsResult(response.job.arg)
BaseCollect(response) ==
  IF response.kind = "error" THEN <<>> ELSE getArtistAlbumsResult(response.job.arg)

\* const response = yield take(responseChannel); put progress; collect
BaseTake ==
  /\ pc = "syncBaseData"
  /\ submitted = Len(artists)
  /\ MoreToFetch(fetched, Len(artists))
  /\ responseChannel # <<>>
  /\ LET response == Head(responseChannel)
     IN /\ responseChannel' = take(responseChannel)
        /\ Put(<<setSyncingProgress(
                   FanOutProgress(BASE_FLOOR, BaseCeiling, fetched + 1, Len(artists)))>>)
        /\ albumsRaw' = albumsRaw \o BaseCollect(response)
        /\ taken' = BagAdd(taken, response)
        /\ fetched' = fetched + 1
  /\ UNCHANGED <<pc, retryCount, events, outcomes, workers, requestChannel, executed,
                 artists, submitted, albums, chunks, labelled, optional, envVars>>

\* syncBaseData returns; 'Processing albums...': merge, build the map, blocklist;
\* then Step 6 enters syncExtraData when fullAlbumData is set
BaseReturn ==
  /\ pc = "syncBaseData"
  /\ submitted = Len(artists)
  /\ ~MoreToFetch(fetched, Len(artists))
  /\ LET merged == mergeAlbumsRaw(albumsRaw, MinDate(settings.days))
         keys == AlbumsMapKeys(merged)
     IN /\ albums' = keys
        /\ IF settings.fullAlbumData
           THEN /\ Put(<<setSyncStage("Processing albums...", 70),
                         setSyncStage("Loading detailed album info...", 75)>>)
                /\ chunks' = ChunkCount(keys, EXTRA_CHUNK_SIZE)
                /\ pc' = "syncExtraData"
           ELSE /\ Put(<<setSyncStage("Processing albums...", 70)>>)
                /\ chunks' = 0
                /\ pc' = "step7"
  /\ submitted' = 0
  /\ fetched' = 0
  /\ UNCHANGED <<retryCount, events, outcomes, poolVars, artists, albumsRaw, labelled,
                 taken, optional, envVars>>

\* for (const albumIdsChunk of albumIdsChunks) yield putRequestMessage(...)
ExtraSubmit ==
  /\ pc = "syncExtraData"
  /\ submitted < chunks
  /\ requestChannel' = putRequestMessage(requestChannel, Job("getFullAlbums", submitted + 1))
  /\ submitted' = submitted + 1
  /\ UNCHANGED <<sagaVars, workers, responseChannel, executed, artists, fetched,
                 albumsRaw, albums, chunks, labelled, taken, optional, envVars>>

\* chunk(ids, size)[k]
ChunkOf(ids, size, k) ==
  SubSeq(ids, (k - 1) * size + 1, IF k * size < Len(ids) THEN k * size ELSE Len(ids))

\* getFullAlbums: one AlbumFull per id of the chunk
getFullAlbumsResult(k) == SeqToSet(ChunkOf(albums, EXTRA_CHUNK_SIZE, k))

\* the ids the loop body assigns label and popularity to for a response
ExtraCollect(response) ==
  IF response.kind = "error" THEN {}
  ELSE {id \in getFullAlbumsResult(response.job.arg) : id \in SeqToSet(albums)}

\* const response = yield take(responseChannel); put progress; assign label, popularity
ExtraTake ==
  /\ pc = "syncExtraData"
  /\ submitted = chunks
  /\ MoreToFetch(fetched, chunks)
  /\ responseChannel # <<>>
  /\ responseChannel' = take(responseChannel)
  /\ Put(<<setSyncingProgress(FanOutProgress(EXTRA_FLOOR, CEILING, fetched + 1, chunks))>>)
  /\ labelled' = labelled \cup ExtraCollect(Head(responseChannel))
  /\ taken' = BagAdd(taken, Head(responseChannel))
  /\ fetched' = fetched + 1
  /\ UNCHANGED <<pc, retryCount, events, outcomes, workers, requestChannel, executed,
                 artists, submitted, albumsRaw, albums, chunks, optional, envVars>>

\* syncExtraData returns; deleteLabels
ExtraReturn ==
  /\ pc = "syncExtraData"
  /\ submitted = chunks
  /\ ~MoreToFetch(fetched, chunks)
  /\ pc' = "step7"
  /\ UNCHANGED <<retryCount, store, runLog, stageLog, events, outcomes, poolVars, dataVars, envVars>>

\* Steps 7 and 8, then the epilogue up to the race
\* yield cancel(workers); yield put(setSyncingProgress(100)), as events
EpilogueEffects == <<Ev("cancel", 0), Ev("setSyncingProgress", 100)>>

\* Step 7: if (enableSmartSort || lastFmEnabled)
ScoresWanted_always(st) == TRUE

ScoresWanted(st) == st.enableSmartSort \/ st.lastFmEnabled

Finalize ==
  /\ pc = "step7"
  /\ Put((IF ScoresWanted(settings)
          THEN <<setSyncStage("Calculating recommendations...", 90), setArtistAffinity>>
          ELSE <<>>)
         \o (IF settings.trackHistory
             THEN <<setSyncStage("Updating history...", 95)>> ELSE <<>>)
         \o <<setSyncingProgress(Whole(100)), setSyncStage("Complete!", 100)>>)
  /\ workers' = cancelWorkers(workers)
  /\ events' = events \o EpilogueEffects
  /\ pc' = "race"
  /\ UNCHANGED <<retryCount, outcomes, requestChannel, responseChannel, executed,
                 dataVars, envVars>>

\* yield race([take(syncAnimationFinished.type), delay(1000)])
Racers_animationOnly == {"syncAnimationFinished"}

Racers == {"syncAnimationFinished", "timeout"}

\* the race is won by either side; put(syncFinished); syncSaga returns
RaceOver(winner) ==
  /\ pc = "race"
  /\ winner \in Racers
  /\ Put(<<syncFinished([albums |-> albums, user |-> "user",
                          previousSyncMaxDate |-> optional.previousSyncMaxDate,
                          auto |-> syncAction.auto])>>)
  /\ events' = events \o <<Ev(winner, 0), Ev("syncFinished", 0)>>
  /\ outcomes' = Append(outcomes, "complete")
  /\ pc' = "done"
  /\ UNCHANGED <<retryCount, poolVars, dataVars, envVars>>

AnimationFinished == RaceOver("syncAnimationFinished")
AnimationTimeout == RaceOver("timeout")

(***************************************************************************)
(* The whole synchronization: one syncSaga invocation.                     *)
(***************************************************************************)
ArtistLists == {SetToSeq(S) : S \in SUBSET ArtistIds}

\* nothing has run yet
SagaAtRest ==
  /\ pc = "loop"
  /\ retryCount = 0
  /\ store = initialState
  /\ runLog = <<>>
  /\ stageLog = <<>>
  /\ events = <<>>
  /\ outcomes = <<>>

PoolAtRest(ws) ==
  /\ workers = ws
  /\ requestChannel = <<>>
  /\ responseChannel = <<>>
  /\ executed = EmptyBag

DataAtRest ==
  /\ artists = <<>>
  /\ submitted = 0
  /\ fetched = 0
  /\ albumsRaw = <<>>
  /\ albums = <<>>
  /\ chunks = 0
  /\ labelled = {}
  /\ taken = EmptyBag
  /\ optional = NoOptional

SyncAtRest == SagaAtRest /\ PoolAtRest(NoWorkers) /\ DataAtRest

Init ==
  /\ SyncAtRest
  /\ settings \in {st \in SettingsSet : st.lastFmSync => st.lastFmEnabled}
  /\ req = NoRequest
  /\ pager = NoPager
  /\ paged = NoPaged
  /\ mergeCase = NoMerge
  /\ scoring = NoScoring
  /\ loader = NoLoader
  /\ ranking = NoRanking
  /\ releases = NoReleases
  /\ history = NoHistory
  /\ syncAction = NoPayload
  /\ extra = NoExtra

Next ==
  \/ SagaLoop
  \/ DelayElapsed
  \/ SyncMainStart
  \/ GetUserThrows
  \/ GetUserResolves
  \/ \E list \in ArtistLists : GetArtistsReturns(list)
  \/ Step2
  \/ TopArtistsResolves
  \/ TopArtistsThrows
  \/ Step3
  \/ LastFmResolves
  \/ LastFmThrows
  \/ Step5
  \/ BaseSubmit
  \/ BaseTake
  \/ BaseReturn
  \/ ExtraSubmit
  \/ ExtraTake
  \/ ExtraReturn
  \/ Finalize
  \/ AnimationFinished
  \/ AnimationTimeout
  \/ \E w \in DOMAIN workers : WorkerTake(w)
  \/ \E w \in DOMAIN workers : WorkerResult(w)
  \/ \E w \in DOMAIN workers : WorkerError(w)

Spec == Init /\ [][Next]_vars

(***************************************************************************)
(* Properties of the outer retry loop.                                     *)
(***************************************************************************)
CountEv(e) == Cardinality({i \in 1..Len(events) : events[i].e = e})

AllThrow == \A i \in 1..Len(outcomes) : outcomes[i] = "throw"

ErrorSurfaced == CountEv("showErrorMessage") > 0 \/ CountEv("syncError") > 0

\* the attempts so far went: throw, throw, complete (or a prefix of that)
RecoveryRun ==
  /\ Len(outcomes) <= 3
  /\ \A i \in 1..Len(outcomes) : outcomes[i] = (IF i = 3 THEN "complete" ELSE "throw")

\* C1: a run that throws on attempts 1 and 2 and completes on attempt 3 ends
\* syncSaga with syncFinished put exactly once, and neither showErrorMessage
\* nor syncError is put at any point of it.
C1_Recovery ==
  /\ RecoveryRun => ~ErrorSurfaced
  /\ (RecoveryRun /\ Len(outcomes) = 3) =>
       /\ pc = "done"
       /\ CountEv("syncFinished") = 1
       /\ events[Len(events)].e = "syncFinished"

C1_Witness ==
  /\ outcomes = <<"throw", "throw", "complete">>
  /\ pc = "done"
  /\ CountEv("run") = 3

\* C2: when every attempt throws, showErrorMessage and then syncError are put
\* exactly once each, as the last two events, after the last attempt; no
\* attempt starts afterwards and syncSaga has returned (no step is left).
C2_Exhaustion ==
  /\ (pc = "done" /\ AllThrow /\ outcomes # <<>>) =>
       /\ CountEv("showErrorMessage") = 1
       /\ CountEv("syncError") = 1
       /\ Len(events) >= 2
       /\ events[Len(events) - 1].e = "showErrorMessage"
       /\ events[Len(events)].e = "syncError"
       /\ CountEv("run") = Len(outcomes)
  /\ ErrorSurfaced => (pc = "done" /\ AllThrow /\ ~ENABLED Next)

C2_Witness ==
  /\ pc = "done"
  /\ AllThrow
  /\ outcomes # <<>>
  /\ CountEv("syncError") = 1

\* C3 as claimed: the run is executed at most MAX_RETRY_ATTEMPTS times and the
\* error is surfaced after the MAX_RETRY_ATTEMPTS-th failed attempt.
C3_AtMostMaxAttempts ==
  /\ CountEv("run") <= MAX_RETRY_ATTEMPTS
  /\ ErrorSurfaced => Len(outcomes) = MAX_RETRY_ATTEMPTS

\* C3 amended: the run is executed at most MAX_RETRY_ATTEMPTS + 1 times (the
\* first attempt and MAX_RETRY_ATTEMPTS retries); the error is surfaced after
\* the (MAX_RETRY_ATTEMPTS + 1)-th failed attempt and not before.
C3_AtMostMaxRetries ==
  /\ CountEv("run") <= MAX_RETRY_ATTEMPTS + 1
  /\ CountEv("attempt") <= MAX_RETRY_ATTEMPTS + 1
  /\ retryCount <= MAX_RETRY_ATTEMPTS
  /\ ErrorSurfaced =>
       /\ AllThrow
       /\ Len(outcomes) = MAX_RETRY_ATTEMPTS + 1
       /\ CountEv("run") = MAX_RETRY_ATTEMPTS + 1

C3_Witness ==
  /\ pc = "done"
  /\ ErrorSurfaced
  /\ CountEv("run") = MAX_RETRY_ATTEMPTS + 1

(***************************************************************************)
(* Properties of the progress a run emits.                                 *)
(***************************************************************************)
NonDecreasing(log) == \A i \in 1..(Len(log) - 1) : FracLe(log[i], log[i + 1])

AllOptionalStages ==
  /\ settings.enableSmartSort
  /\ settings.lastFmEnabled
  /\ settings.lastFmSync
  /\ settings.fullAlbumData
  /\ settings.trackHistory

RunSucceeded == pc = "done" /\ outcomes # <<>> /\ outcomes[Len(outcomes)] = "complete"

\* C4: in a successful run with every optional stage enabled the progress
\* values put (setSyncStage.progress and setSyncingProgress), in the order of
\* emission, never decrease, and the last one is 100.
C4_ProgressMonotone ==
  (RunSucceeded /\ AllOptionalStages) =>
     /\ NonDecreasing(runLog)
     /\ runLog # <<>>
     /\ FracEq(runLog[Len(runLog)], Whole(100))

(***************************************************************************)
(* Properties of the fan-out stages.                                       *)
(***************************************************************************)
RECURSIVE BagTotal(_, _)
\* the number of copies the bag holds of the elements of S
BagTotal(bag, S) ==
  IF S = {} THEN 0
  ELSE LET x == CHOOSE y \in S : TRUE IN bag[x] + BagTotal(bag, S \ {x})

TakenOf(fn) == {r \in DOMAIN taken : r.job.fn = fn}
TakenCount(fn) == BagTotal(taken, TakenOf(fn))
Successes(fn) == {r \in TakenOf(fn) : r.kind = "result"}
Failures(fn) == {r \in TakenOf(fn) : r.kind = "error"}

BaseStageOver == pc \in {"syncExtraData", "step7", "race"} \/ RunSucceeded
ExtraStageOver == settings.fullAlbumData /\ (pc \in {"step7", "race"} \/ RunSucceeded)

\* C6: whatever subset of the responses of a fan-out are errors, syncBaseData
\* takes exactly one response per artist and syncExtraData one per chunk, the
\* stage does not throw but leaves its loop and returns, and the result
\* of the stage (albumsRaw, the labelled albums) is exactly the data of the
\* successful responses.
C6_FanOutNonFatal ==
  /\ pc = "syncBaseData" =>
       /\ TakenCount("getArtistAlbums") = fetched
       /\ fetched <= Len(artists)
  /\ pc = "syncExtraData" =>
       /\ TakenCount("getFullAlbums") = fetched
       /\ fetched <= chunks
  /\ (pc = "syncBaseData" \/ BaseStageOver) =>
       Len(albumsRaw) = AlbumsPerArtist * BagTotal(taken, Successes("getArtistAlbums"))
  /\ (pc = "syncBaseData" /\ submitted = Len(artists) /\ fetched = Len(artists)) =>
       SeqToSet(albumsRaw) =
         UNION {SeqToSet(getArtistAlbumsResult(r.job.arg)) : r \in Successes("getArtistAlbums")}
  /\ BaseStageOver => TakenCount("getArtistAlbums") = Len(artists)
  /\ (pc = "syncExtraData" \/ ExtraStageOver) =>
       labelled = UNION {getFullAlbumsResult(r.job.arg) : r \in Successes("getFullAlbums")}
  /\ ExtraStageOver => TakenCount("getFullAlbums") = chunks
  /\ (pc = "syncBaseData" /\ TakenCount("getArtistAlbums") = Len(artists)) =>
       (submitted = Len(artists) /\ ~MoreToFetch(fetched, Len(artists)))
  /\ (pc = "syncExtraData" /\ TakenCount("getFullAlbums") = chunks) =>
       (submitted = chunks /\ ~MoreToFetch(fetched, chunks))
  /\ taken # EmptyBag =>
       (pc \in {"syncBaseData", "syncExtraData", "step7", "race", "done"} /\ ~ErrorSurfaced)

C6_Witness ==
  /\ RunSucceeded
  /\ Failures("getArtistAlbums") # {}
  /\ Successes("getArtistAlbums") # {}
  /\ Failures("getFullAlbums") # {}
  /\ Successes("getFullAlbums") # {}
  /\ TakenCount("getArtistAlbums") = MaxArtists

(***************************************************************************)
(* The worker pool under syncBaseData, for every size of the pool: the     *)
(* run has passed Step 5 with the given artists and a pool of the given    *)
(* size, and the stage submits one job per artist and takes the responses. *)
(***************************************************************************)
PoolArtistLists == {[i \in 1..n |-> i] : n \in 0..MaxJobs}

PoolSettings ==
  {st \in SettingsSet : ~st.enableSmartSort /\ ~st.lastFmEnabled /\ ~st.lastFmSync
                        /\ ~st.trackHistory}

InitPool ==
  /\ pc = "syncBaseData"
  /\ retryCount = 0
  /\ settings \in PoolSettings
  /\ store = reduceAll(initialState,
                       <<syncStart, setSyncStage("Loading new releases...", 25)>>)
  /\ runLog = <<Whole(0), Whole(5), Whole(10), Whole(25)>>
  /\ stageLog = <<"Initializing...", "Loading user profile...", "Loading artists...",
                   "Loading new releases...">>
  /\ events = <<Ev("attempt", 1), Ev("run", 1)>>
  /\ outcomes = <<>>
  /\ \E workersCount \in 1..MaxWorkers : workers = setupWorkers(workersCount)
  /\ requestChannel = <<>>
  /\ responseChannel = <<>>
  /\ executed = EmptyBag
  /\ artists \in PoolArtistLists
  /\ submitted = 0
  /\ fetched = 0
  /\ albumsRaw = <<>>
  /\ albums = <<>>
  /\ chunks = 0
  /\ labelled = {}
  /\ taken = EmptyBag
  /\ optional = NoOptional
  /\ req = NoRequest
  /\ pager = NoPager
  /\ paged = NoPaged
  /\ mergeCase = NoMerge
  /\ scoring = NoScoring
  /\ loader = NoLoader
  /\ ranking = NoRanking
  /\ releases = NoReleases
  /\ history = NoHistory
  /\ syncAction = NoPayload
  /\ extra = NoExtra

NextPool ==
  \/ BaseSubmit
  \/ BaseTake
  \/ \E w \in DOMAIN workers : WorkerTake(w)
  \/ \E w \in DOMAIN workers : WorkerResult(w)
  \/ \E w \in DOMAIN workers : WorkerError(w)

SpecPool == InitPool /\ [][NextPool]_vars

SubmittedJobs == {Job("getArtistAlbums", artists[i]) : i \in 1..submitted}

Waiting(job) == CountOf(requestChannel, job)
Running(job) == Cardinality({w \in DOMAIN workers : workers[w].job = job})
Posted(job) ==
  Cardinality({i \in 1..Len(responseChannel) : responseChannel[i].job = job})
Consumed(job) == BagTotal(taken, {r \in DOMAIN taken : r.job = job})

PoolQuiet ==
  /\ submitted = Len(artists)
  /\ requestChannel = <<>>
  /\ \A w \in DOMAIN workers : workers[w].state = "idle"

\* C7: for every size of the pool and every number of jobs, each submitted job
\* is at any time in exactly one place (waiting on the request channel, held
\* by exactly one worker, posted as one response, or taken as one response),
\* was taken by a worker at most once, and once the pool is quiet exactly N
\* responses, each tagged result or error, have appeared for the N jobs; jobs
\* that throw make no difference.
C7_PoolConservation ==
  /\ \A job \in SubmittedJobs :
       /\ Waiting(job) + Running(job) + Posted(job) + Consumed(job) = 1
       /\ Copies(executed, job) = Running(job) + Posted(job) + Consumed(job)
  /\ DOMAIN executed \subseteq SubmittedJobs
  /\ \A i \in 1..Len(responseChannel) :
       /\ responseChannel[i].kind \in {"result", "error"}
       /\ responseChannel[i].job \in SubmittedJobs
  /\ \A r \in DOMAIN taken : r.kind \in {"result", "error"} /\ r.job \in SubmittedJobs
  /\ \A w \in DOMAIN workers : workers[w].state = "busy" => workers[w].job \in SubmittedJobs
  /\ PoolQuiet =>
       /\ Len(responseChannel) + TakenCount("getArtistAlbums") = Len(artists)
       /\ \A job \in SubmittedJobs : Copies(executed, job) = 1

C7_Witness ==
  /\ PoolQuiet
  /\ Len(artists) = MaxJobs
  /\ Cardinality(DOMAIN workers) = MaxWorkers
  /\ fetched = MaxJobs
  /\ Failures("getArtistAlbums") # {}
  /\ Successes("getArtistAlbums") # {}

(***************************************************************************)
(* One call of request(payload) against a transport that answers as it     *)
(* likes.                                                                  *)
(***************************************************************************)
DefaultSettings ==
  [enableSmartSort |-> FALSE, lastFmEnabled |-> FALSE, lastFmSync |-> FALSE,
   fullAlbumData |-> FALSE, trackHistory |-> FALSE, days |-> Days]

InitRequest ==
  /\ SyncAtRest
  /\ settings = DefaultSettings
  /\ \E payload \in Payloads : req = [NoRequest EXCEPT !.pc = "call", !.payload = payload]
  /\ pager = NoPager
  /\ paged = NoPaged
  /\ mergeCase = NoMerge
  /\ scoring = NoScoring
  /\ loader = NoLoader
  /\ ranking = NoRanking
  /\ releases = NoReleases
  /\ history = NoHistory
  /\ syncAction = NoPayload
  /\ extra = NoExtra

NextRequest ==
  \/ RequestFetch
  \/ \E response \in Answers : RequestAnswered(response)
  \/ RequestSleepOver

SpecRequest == InitRequest /\ [][NextRequest]_vars

Count429 == Cardinality({i \in 1..Len(req.answers) : req.answers[i].status = 429})

Only429ThenOk ==
  \A i \in 1..Len(req.answers) :
    \/ req.answers[i].status = 429
    \/ i = Len(req.answers) /\ Ok(req.answers[i])

\* C5: while the transport has answered k times 429 and then possibly 2xx,
\* request has thrown nothing and goes on; it has fetched once per answer
\* (k + 1 times once the 2xx arrived), every time with the arguments built
\* from the same payload; before the i-th replay it slept (Retry-After_i + 1)
\* seconds; and the 2xx body is what it returns.
C5_RateLimitReplay ==
  Only429ThenOk =>
    /\ req.pc # "thrown"
    /\ req.error = NoBody
    /\ Len(req.sleeps) = Count429
    /\ \A i \in 1..Len(req.sleeps) :
         /\ req.answers[i].status = 429
         /\ req.sleeps[i] = (Number(req.answers[i].retryAfter) + 1) * 1000
    /\ Len(req.fetches) = Len(req.answers) + (IF req.pc = "fetching" THEN 1 ELSE 0)
    /\ \A i \in 1..Len(req.fetches) : req.fetches[i] = FetchArgs(req.payload)
    /\ req.pc = "returned" <=> (req.answers # <<>> /\ Ok(req.answers[Len(req.answers)]))
    /\ req.pc = "returned" =>
         /\ req.result = req.answers[Len(req.answers)].json
         /\ Len(req.fetches) = Count429 + 1
    /\ req.pc \in {"call", "sleeping"} => ENABLED NextRequest

C5_Witness ==
  /\ req.pc = "returned"
  /\ Count429 = Max429
  /\ req.sleeps = <<1000, (MaxRetryAfter + 1) * 1000, 2000>>
  /\ req.result = "body2"
  /\ req.payload.method = "POST"

(***************************************************************************)
(* One cursor-paged loop over a listing of 1..MaxPages pages.              *)
(***************************************************************************)
InitCursor ==
  /\ SagaAtRest
  /\ DataAtRest
  /\ settings = DefaultSettings
  /\ req = NoRequest
  /\ paged = NoPaged
  /\ mergeCase = NoMerge
  /\ scoring = NoScoring
  /\ loader = NoLoader
  /\ ranking = NoRanking
  /\ releases = NoReleases
  /\ history = NoHistory
  /\ syncAction = NoPayload
  /\ extra = NoExtra
  /\ \E pages \in 1..MaxPages :
       \/ /\ pager = PagerCalled("getArtistAlbums", pages)
          /\ PoolAtRest(NoWorkers)
       \/ /\ pager = PagerCalled("getAllCursorPaged", pages)
          /\ \E workersCount \in 1..MaxWorkers : PoolAtRest(setupWorkers(workersCount))

NextCursor ==
  \/ GetArtistAlbumsFetch
  \/ GetArtistAlbumsPage
  \/ GetArtistAlbumsThrows
  \/ CursorPagedSubmit
  \/ CursorPagedTake
  \/ PagerReturns
  \/ \E w \in DOMAIN workers : WorkerTake(w)
  \/ \E w \in DOMAIN workers : WorkerResult(w)
  \/ \E w \in DOMAIN workers : WorkerError(w)

SpecCursor == InitCursor /\ [][NextCursor]_vars

\* page requests of the loop that left and whose response the loop has not seen
Outstanding ==
  Len(pager.inFlight) + Len(requestChannel) + Len(responseChannel)
    + Cardinality({w \in DOMAIN workers : workers[w].state = "busy"})

LastNext == IF pager.observed = <<>> THEN FirstCursor
            ELSE pager.observed[Len(pager.observed)].next

\* C8: a cursor-paged loop has at most one page request outstanding; request
\* i + 1 leaves only after the response to request i was observed and asks
\* for the cursor that response carried; the loop returns exactly when the
\* page last observed carries no next cursor, having observed every page.
C8_CursorSequential ==
  /\ Outstanding <= 1
  /\ Len(pager.issued) <= Len(pager.observed) + 1
  /\ pager.pc \in {"while", "returned"} =>
       (Outstanding = 0 /\ Len(pager.issued) = Len(pager.observed))
  /\ pager.pc = "awaiting" =>
       (Outstanding = 1 /\ Len(pager.issued) = Len(pager.observed) + 1)
  /\ \A i \in 1..Len(pager.issued) :
       pager.issued[i] = IF i = 1 THEN FirstCursor ELSE pager.observed[i - 1].next
  /\ \A i \in 1..Len(pager.observed) :
       pager.observed[i] = PageAt(pager.issued[i], pager.pages)
  /\ pager.pc = "returned" =>
       /\ pager.observed # <<>>
       /\ LastNext = NoCursor
       /\ Len(pager.issued) = pager.pages
       /\ Len(pager.items) = pager.pages * CursorPageSize
  /\ (pager.pc = "while" /\ LastNext = NoCursor) => ENABLED PagerReturns
  /\ (pager.pc = "while" /\ LastNext # NoCursor) => ~ENABLED PagerReturns
  /\ \A i \in 1..(Len(pager.observed) - 1) : pager.observed[i].next # NoCursor

C8_Witness ==
  /\ pager.pc = "returned"
  /\ pager.fn = "getArtistAlbums"
  /\ pager.pages = MaxPages
  /\ Len(pager.observed) = MaxPages

C8_WitnessPool ==
  /\ pager.pc = "returned"
  /\ pager.fn = "getAllCursorPaged"
  /\ pager.pages = MaxPages
  /\ Cardinality(DOMAIN workers) = MaxWorkers

(***************************************************************************)
(* One getAllPaged call over a listing of 0..MaxItems items, for every     *)
(* size of the pool.                                                       *)
(***************************************************************************)
InitPaged ==
  /\ SagaAtRest
  /\ DataAtRest
  /\ settings = DefaultSettings
  /\ req = NoRequest
  /\ pager = NoPager
  /\ mergeCase = NoMerge
  /\ scoring = NoScoring
  /\ loader = NoLoader
  /\ ranking = NoRanking
  /\ releases = NoReleases
  /\ history = NoHistory
  /\ syncAction = NoPayload
  /\ extra = NoExtra
  /\ \E total \in 0..MaxItems, workersCount \in 1..MaxWorkers :
       /\ paged = PagedCalled(total, PageLimit, workersCount)
       /\ PoolAtRest(setupWorkers(workersCount))

NextPaged ==
  \/ PagedSubmit
  \/ PagedTake
  \/ PagedNextBatch
  \/ PagedReturns
  \/ \E w \in DOMAIN workers : WorkerTake(w)
  \/ \E w \in DOMAIN workers : WorkerResult(w)
  \/ \E w \in DOMAIN workers : WorkerError(w)

SpecPaged == InitPaged /\ [][NextPaged]_vars

\* C9: getAllPaged returns exactly the K items of the listing, each exactly
\* once, for every size of the pool, also when K is a multiple of the page
\* size and when K = 0; no item is ever held twice on the way.
C9_PagedComplete ==
  /\ \A i, j \in 1..Len(paged.items) : i # j => paged.items[i] # paged.items[j]
  /\ SeqToSet(paged.items) \subseteq 1..paged.total
  /\ paged.pc = "returned" =>
       /\ Len(paged.items) = paged.total
       /\ SeqToSet(paged.items) = 1..paged.total
       /\ requestChannel = <<>>
       /\ responseChannel = <<>>

C9_Witness ==
  /\ paged.pc = "returned"
  /\ paged.workersCount = MaxWorkers
  /\ paged.total = 2 * PageLimit
  /\ paged.items # <<1, 2, 3, 4>>

C9_WitnessEmpty ==
  /\ paged.pc = "returned"
  /\ paged.total = 0
  /\ paged.workersCount = 1

(***************************************************************************)
(* mergeAlbumsRaw applied to two raw albums as buildAlbumRaw makes them:   *)
(* one role with one contributor each, any ids, roles, contributors and    *)
(* release dates around the window.                                        *)
(***************************************************************************)
MergeIds == 1..2
MergeContributors == 1..(MaxArtists + 1)
MergeDates == {MinDate(Days) - 1, MinDate(Days), Today, MaxDate, MaxDate + 1}

RawAlbums ==
  {[id |-> id, releaseDate |-> d, artistIds |-> <<Entry(g, <<a>>)>>, albumArtists |-> <<1>>] :
     id \in MergeIds, d \in MergeDates, g \in AlbumGroups,
     a \in MergeContributors}

InitMerge ==
  /\ SyncAtRest
  /\ settings = DefaultSettings
  /\ req = NoRequest
  /\ pager = NoPager
  /\ paged = NoPaged
  /\ scoring = NoScoring
  /\ loader = NoLoader
  /\ ranking = NoRanking
  /\ releases = NoReleases
  /\ history = NoHistory
  /\ syncAction = NoPayload
  /\ extra = NoExtra
  /\ \E first \in RawAlbums, second \in RawAlbums :
       mergeCase = MergeCalled(<<first, second>>, MinDate(Days))

NextMerge == MergeReturns

SpecMerge == InitMerge /\ [][NextMerge]_vars

First == mergeCase.albumsRaw[1]
Second == mergeCase.albumsRaw[2]
RoleOf(album) == album.artistIds[1].group
ContributorOf(album) == album.artistIds[1].ids[1]
Roles(artistIds) == {artistIds[i].group : i \in 1..Len(artistIds)}

SameIdInWindow ==
  /\ mergeCase.pc = "returned"
  /\ First.id = Second.id
  /\ InWindow(First.releaseDate, mergeCase.minDate)
  /\ InWindow(Second.releaseDate, mergeCase.minDate)

\* C10: two raw albums of the same id, both inside the date window, are
\* merged into one entry: with different roles its artistIds holds both
\* roles, each with its contributor; with the same role it holds that one
\* role with the contributors of both albums.
C10_MergeUnion ==
  SameIdInWindow =>
    /\ Len(mergeCase.result) = 1
    /\ mergeCase.result[1].id = First.id
    /\ LET merged == mergeCase.result[1].artistIds
       IN IF RoleOf(First) # RoleOf(Second)
          THEN /\ Roles(merged) = {RoleOf(First), RoleOf(Second)}
               /\ Len(merged) = 2
               /\ IdsOf(merged, RoleOf(First)) = <<ContributorOf(First)>>
               /\ IdsOf(merged, RoleOf(Second)) = <<ContributorOf(Second)>>
          ELSE /\ Roles(merged) = {RoleOf(First)}
               /\ Len(merged) = 1
               /\ SeqToSet(IdsOf(merged, RoleOf(First))) =
                    {ContributorOf(First), ContributorOf(Second)}
               /\ (ContributorOf(First) # ContributorOf(Second)) =>
                    IdsOf(merged, RoleOf(First)) =
                      <<ContributorOf(First), ContributorOf(Second)>>

C10_Witness ==
  /\ SameIdInWindow
  /\ RoleOf(First) = RoleOf(Second)
  /\ ContributorOf(First) # ContributorOf(Second)
  /\ First.releaseDate # Second.releaseDate

C10_WitnessDisjoint ==
  /\ SameIdInWindow
  /\ RoleOf(First) # RoleOf(Second)
  /\ Len(mergeCase.result[1].artistIds) = 2

(***************************************************************************)
(* mergeAlbumsRaw applied to a raw album and a copy of it.                 *)
(***************************************************************************)
SelfMerge ==
  /\ mergeCase.pc = "returned"
  /\ First = Second
  /\ InWindow(First.releaseDate, mergeCase.minDate)

\* C11: merging a raw album with a copy of itself (same id, same role, same
\* contributor) gives the entry of the single album: the same role-to-
\* contributor lists as mergeAlbumsRaw([a]), the contributor listed once.
C11_MergeIdempotent ==
  SelfMerge =>
    /\ Len(mergeCase.result) = 1
    /\ mergeCase.result[1].artistIds =
         mergeAlbumsRaw(<<First>>, mergeCase.minDate)[1].artistIds
    /\ IdsOf(mergeCase.result[1].artistIds, RoleOf(First)) = <<ContributorOf(First)>>

\* what the code returns for [a, a]: one entry, the one role, the
\* contributor listed twice
C11_SelfMergeDuplicates ==
  SelfMerge =>
    /\ Len(mergeCase.result) = 1
    /\ Roles(mergeCase.result[1].artistIds) = {RoleOf(First)}
    /\ IdsOf(mergeCase.result[1].artistIds, RoleOf(First)) =
         <<ContributorOf(First), ContributorOf(First)>>

(***************************************************************************)
(* The date window of mergeAlbumsRaw.                                      *)
(***************************************************************************)
Tomorrow == Today + 1

\* how often the result lists the contributor of an input album under the
\* album's id and role
Occurrences(album) ==
  LET Matches == {k \in 1..Len(mergeCase.result) : mergeCase.result[k].id = album.id}
  IN IF Matches = {} THEN 0
     ELSE CountOf(IdsOf(mergeCase.result[CHOOSE k \in Matches : TRUE].artistIds,
                        RoleOf(album)),
                  ContributorOf(album))

\* the input albums of the same id, role and contributor dated within
\* [minDate, tomorrow]
DatedWithin(album) ==
  {i \in 1..Len(mergeCase.albumsRaw) :
     /\ mergeCase.albumsRaw[i].id = album.id
     /\ RoleOf(mergeCase.albumsRaw[i]) = RoleOf(album)
     /\ ContributorOf(mergeCase.albumsRaw[i]) = ContributorOf(album)
     /\ mergeCase.minDate <= mergeCase.albumsRaw[i].releaseDate
     /\ mergeCase.albumsRaw[i].releaseDate <= Tomorrow}

KeptIds == {mergeCase.result[k].id : k \in 1..Len(mergeCase.result)}

\* C12: mergeAlbumsRaw keeps a raw album iff minDate <= releaseDate <=
\* maxDate, maxDate being the day after the run date: the result has an
\* entry for exactly the ids that have an album dated within the bounds, each
\* id once, and lists a contributor once per such album; an album dated
\* minDate or tomorrow is kept, one dated the day before minDate or two days
\* ahead is dropped.
C12_DateWindow ==
  mergeCase.pc = "returned" =>
    /\ \A i \in 1..Len(mergeCase.albumsRaw) :
         LET album == mergeCase.albumsRaw[i]
         IN /\ Occurrences(album) = Cardinality(DatedWithin(album))
            /\ album.releaseDate \in {mergeCase.minDate, Tomorrow} =>
                 /\ album.id \in KeptIds
                 /\ Occurrences(album) >= 1
            /\ album.releaseDate \in {mergeCase.minDate - 1, Tomorrow + 1} =>
                 i \notin DatedWithin(album)
    /\ KeptIds = {mergeCase.albumsRaw[i].id : i \in
                    {j \in 1..Len(mergeCase.albumsRaw) :
                       j \in DatedWithin(mergeCase.albumsRaw[j])}}
    /\ Cardinality(KeptIds) = Len(mergeCase.result)

\* an album dated minDate kept next to one dated two days ahead dropped
C12_Witness ==
  /\ mergeCase.pc = "returned"
  /\ First.id # Second.id
  /\ First.releaseDate = mergeCase.minDate
  /\ Second.releaseDate = Tomorrow + 1
  /\ KeptIds = {First.id}

\* an album dated the day before minDate dropped next to one dated tomorrow kept
C12_WitnessTomorrow ==
  /\ mergeCase.pc = "returned"
  /\ First.id # Second.id
  /\ First.releaseDate = mergeCase.minDate - 1
  /\ Second.releaseDate = Tomorrow
  /\ KeptIds = {Second.id}

(***************************************************************************)
(* getAffinityScore applied to a calculator and one contributor.           *)
(***************************************************************************)
Calculators ==
  [spotifyAffinity : UNION {[D -> ScoreValues] : D \in SUBSET ScoredIds},
   lastFmAffinityMap : UNION {[D -> ScoreValues] : D \in SUBSET LastFmKeys}]

Contributors == [id : ScoredIds, name : ArtistNames]

InitScore ==
  /\ SyncAtRest
  /\ settings = DefaultSettings
  /\ req = NoRequest
  /\ pager = NoPager
  /\ paged = NoPaged
  /\ mergeCase = NoMerge
  /\ loader = NoLoader
  /\ ranking = NoRanking
  /\ releases = NoReleases
  /\ history = NoHistory
  /\ syncAction = NoPayload
  /\ extra = NoExtra
  /\ \E calculator \in Calculators, artist \in Contributors :
       scoring = ScoreCalled(calculator, artist)

NextScore == ScoreReturns

SpecScore == InitScore /\ [][NextScore]_vars

\* the contributor's primary score, 0 when absent
PrimaryScore ==
  IF scoring.artist.id \in DOMAIN scoring.calculator.spotifyAffinity
  THEN scoring.calculator.spotifyAffinity[scoring.artist.id]
  ELSE 0

\* the contributor's secondary score, 0 when absent
SecondaryScore ==
  LET key == toLowerCase(scoring.artist.name)
  IN IF key \in DOMAIN scoring.calculator.lastFmAffinityMap
     THEN scoring.calculator.lastFmAffinityMap[key]
     ELSE 0

\* C13: with primary score p and secondary score s (absent = 0),
\* getAffinityScore returns 0.6*p + 0.4*s when both are positive, the one
\* positive score when exactly one is, and 0 when neither is; p = 80 alone
\* gives 80, p = 80 with s = 50 gives 68.
C13_AffinityBlend ==
  scoring.pc = "returned" =>
    LET p == PrimaryScore
        s == SecondaryScore
    IN /\ (p > 0 /\ s > 0) => 10 * scoring.result[1] = (6 * p + 4 * s) * scoring.result[2]
       /\ (p > 0 /\ s = 0) => FracEq(scoring.result, Whole(p))
       /\ (p = 0 /\ s > 0) => FracEq(scoring.result, Whole(s))
       /\ (p = 0 /\ s = 0) => FracEq(scoring.result, Whole(0))
       /\ (p = 80 /\ s = 0) => FracEq(scoring.result, Whole(80))
       /\ (p = 80 /\ s = 50) => FracEq(scoring.result, Whole(68))
       /\ scoring.result[2] > 0

C13_Witness ==
  /\ scoring.pc = "returned"
  /\ PrimaryScore = 80
  /\ SecondaryScore = 50
  /\ scoring.artist.name = "ABBA"
  /\ FracEq(scoring.result, Whole(68))

C13_WitnessPrimaryOnly ==
  /\ scoring.pc = "returned"
  /\ PrimaryScore = 80
  /\ "abba" \notin DOMAIN scoring.calculator.lastFmAffinityMap
  /\ scoring.artist.name = "Abba"
  /\ FracEq(scoring.result, Whole(80))

(***************************************************************************)
(* calculateAlbumAffinity applied to an album as buildAlbum makes it       *)
(* (otherArtists holds no artist of a role list) and an affinity map.      *)
(***************************************************************************)
AlbumScoreValues == {0, 10, 60, 98, 100}

\* the lists of at most two artists
ArtistLists2 ==
  {<<>>} \cup {<<a>> : a \in ScoredIds} \cup {<<a, b>> : a \in ScoredIds, b \in ScoredIds}

ScoredAlbums ==
  {album \in [artists : {<<Entry("album", main)>> \o onAppearsOn :
                            main \in ArtistLists2 \ {<<>>},
                            onAppearsOn \in {<<>>} \cup
                              {<<Entry("appears_on", l)>> : l \in ArtistLists2 \ {<<>>}}},
              otherArtists : ArtistLists2] :
     SeqToSet(Flat(album.artists)) \cap SeqToSet(album.otherArtists) = {}}

AffinityMaps == UNION {[D -> AlbumScoreValues] : D \in SUBSET ScoredIds}

InitAlbumScore ==
  /\ SyncAtRest
  /\ settings = DefaultSettings
  /\ req = NoRequest
  /\ pager = NoPager
  /\ paged = NoPaged
  /\ mergeCase = NoMerge
  /\ loader = NoLoader
  /\ ranking = NoRanking
  /\ releases = NoReleases
  /\ history = NoHistory
  /\ syncAction = NoPayload
  /\ extra = NoExtra
  /\ \E album \in ScoredAlbums, artistAffinity \in AffinityMaps :
       scoring = AlbumScoreCalled(album, artistAffinity)

NextAlbumScore == AlbumScoreReturns

SpecAlbumScore == InitAlbumScore /\ [][NextAlbumScore]_vars

\* the distinct contributors of the album that have a nonzero score
ScoredContributors ==
  {a \in SeqToSet(AllArtists(scoring.album)) :
     a \in DOMAIN scoring.artistAffinity /\ scoring.artistAffinity[a] # 0}

HighestScore ==
  CHOOSE m \in {scoring.artistAffinity[a] : a \in ScoredContributors} :
    \A a \in ScoredContributors : scoring.artistAffinity[a] <= m

\* C14: calculateAlbumAffinity returns min(100, highest contributor score +
\* bonus), the bonus being 5 iff more than one distinct contributor of the
\* album (all roles and otherArtists) has a nonzero score and 0 otherwise,
\* and returns 0 when no contributor has a nonzero score.
C14_AlbumAffinity ==
  scoring.pc = "returned" =>
    IF ScoredContributors = {} THEN scoring.result = 0
    ELSE scoring.result =
           Min(100, HighestScore + (IF Cardinality(ScoredContributors) > 1 THEN 5 ELSE 0))

\* what the code computes: the bonus is given when more than one entry of
\* the album's artist lists has a nonzero score, an artist listed twice
\* counting twice
ScoredEntries ==
  {i \in 1..Len(AllArtists(scoring.album)) : AllArtists(scoring.album)[i] \in ScoredContributors}

C14_BonusCountsEntries ==
  scoring.pc = "returned" =>
    IF ScoredContributors = {} THEN scoring.result = 0
    ELSE scoring.result =
           Min(100, HighestScore + (IF Cardinality(ScoredEntries) > 1 THEN 5 ELSE 0))

\* one scored artist listed under two roles gets the bonus
C14_SoloBonus ==
  /\ scoring.pc = "returned"
  /\ Cardinality(ScoredContributors) = 1
  /\ scoring.album.artists = <<Entry("album", <<1>>), Entry("appears_on", <<1>>)>>
  /\ scoring.album.otherArtists = <<>>
  /\ scoring.artistAffinity = (1 :> 60)
  /\ scoring.result = 65

\* scores 60 and 10 give 65
C14_WitnessTwo ==
  /\ scoring.pc = "returned"
  /\ scoring.album.artists = <<Entry("album", <<1>>)>>
  /\ scoring.album.otherArtists = <<2>>
  /\ scoring.artistAffinity = (1 :> 60 @@ 2 :> 10)
  /\ scoring.result = 65

(***************************************************************************)
(* mergeAlbumsRaw followed by buildAlbumsMap, as in syncMainSaga, on two   *)
(* raw albums of the user's artists; the artists of record of an album     *)
(* are the same in every raw album of its id and may name an artist the    *)
(* user's sources do not hold.                                             *)
(***************************************************************************)
Stranger == MaxArtists + 2

RecordLists == {<<1>>, <<2>>, <<2, 1>>, <<Stranger>>, <<MaxArtists + 1, Stranger>>}

InitBuild ==
  /\ SyncAtRest
  /\ settings = DefaultSettings
  /\ req = NoRequest
  /\ pager = NoPager
  /\ paged = NoPaged
  /\ scoring = NoScoring
  /\ loader = NoLoader
  /\ ranking = NoRanking
  /\ releases = NoReleases
  /\ history = NoHistory
  /\ syncAction = NoPayload
  /\ extra = NoExtra
  /\ \E recordOf \in [MergeIds -> RecordLists] :
       \E first \in RawAlbums, second \in RawAlbums :
         /\ first.releaseDate = Today
         /\ second.releaseDate = Today
         /\ mergeCase =
              [MergeCalled(<<[first EXCEPT !.albumArtists = recordOf[first.id]],
                             [second EXCEPT !.albumArtists = recordOf[second.id]]>>,
                           MinDate(Days))
                 EXCEPT !.artists = SetToSeq(MergeContributors)]

NextBuild == MergeReturns \/ BuildReturns

SpecBuild == InitBuild /\ [][NextBuild]_vars

RoleArtists(album) == SeqToSet(FlatIds(album.artists))
OtherArtists(album) == SeqToSet(album.otherArtists)

\* C15: in every album buildAlbum makes from the merged raw albums no artist
\* is both in a role list of album.artists and in album.otherArtists, and
\* every artist of record of the album is in one of the two.
C15_CanonicalAlbum ==
  mergeCase.pc = "built" =>
    /\ Len(mergeCase.albums) = Len(mergeCase.result)
    /\ \A k \in 1..Len(mergeCase.albums) :
         LET album == mergeCase.albums[k]
             albumRaw == mergeCase.result[k]
         IN /\ album.id = albumRaw.id
            /\ RoleArtists(album) \cap OtherArtists(album) = {}
            /\ SeqToSet(albumRaw.albumArtists) \subseteq
                 RoleArtists(album) \cup OtherArtists(album)
            /\ RoleArtists(album) = SeqToSet(FlatIds(albumRaw.artistIds))

\* an album one of whose artists of record is in a role list and the other
\* in otherArtists
C15_Witness ==
  /\ mergeCase.pc = "built"
  /\ Len(mergeCase.albums) = 1
  /\ Len(mergeCase.albums[1].artists) = 2
  /\ mergeCase.result[1].albumArtists = <<MaxArtists + 1, Stranger>>
  /\ MaxArtists + 1 \in RoleArtists(mergeCase.albums[1])
  /\ mergeCase.albums[1].otherArtists = <<Stranger>>

(***************************************************************************)
(* The attempts of one syncSaga invocation with an exception possible at   *)
(* every stage of syncMainSaga, for a user with at most one artist.        *)
(***************************************************************************)
RunSettings ==
  {st \in SettingsSet :
     /\ st.lastFmSync = st.lastFmEnabled
     /\ st.fullAlbumData
     /\ st.trackHistory = st.enableSmartSort}

RunArtistLists == {<<>>, <<1>>}

InitRun ==
  /\ SyncAtRest
  /\ settings \in RunSettings
  /\ req = NoRequest
  /\ pager = NoPager
  /\ paged = NoPaged
  /\ mergeCase = NoMerge
  /\ scoring = NoScoring
  /\ loader = NoLoader
  /\ ranking = NoRanking
  /\ releases = NoReleases
  /\ history = NoHistory
  /\ syncAction = NoPayload
  /\ extra = NoExtra

NextRun ==
  \/ SagaLoop
  \/ DelayElapsed
  \/ SyncMainStart
  \/ StageThrows
  \/ GetUserResolves
  \/ \E list \in RunArtistLists : GetArtistsReturns(list)
  \/ Step2
  \/ TopArtistsResolves
  \/ TopArtistsThrows
  \/ Step3
  \/ LastFmResolves
  \/ LastFmThrows
  \/ Step5
  \/ BaseSubmit
  \/ BaseTake
  \/ BaseReturn
  \/ ExtraSubmit
  \/ ExtraTake
  \/ ExtraReturn
  \/ Finalize
  \/ AnimationFinished
  \/ AnimationTimeout
  \/ \E w \in DOMAIN workers : WorkerTake(w)
  \/ \E w \in DOMAIN workers : WorkerResult(w)
  \/ \E w \in DOMAIN workers : WorkerError(w)

SpecRun == InitRun /\ [][NextRun]_vars

\* delay(1000) elapses
SpecRunFair == SpecRun /\ WF_vars(AnimationTimeout)

\* the last n events
LastEvents(n) == SubSeq(events, Len(events) - n + 1, Len(events))

\* the stage sequence has succeeded and syncMainSaga waits in the race
Waiting100 ==
  /\ PoolCancelled(workers)
  /\ FracEq(store.syncingProgress, Whole(100))
  /\ runLog[Len(runLog)] = Whole(100)
  /\ Len(events) >= 2
  /\ LastEvents(2) = <<Ev("cancel", 0), Ev("setSyncingProgress", 100)>>
  /\ CountEv("syncFinished") = 0

EpilogueOrder ==
  /\ pc = "race" => Waiting100
  /\ CountEv("syncFinished") > 0 =>
       /\ pc = "done"
       /\ CountEv("syncFinished") = 1
       /\ Len(events) >= 4
       /\ SubSeq(LastEvents(4), 1, 2) = <<Ev("cancel", 0), Ev("setSyncingProgress", 100)>>
       /\ LastEvents(4)[3] \in {Ev("syncAnimationFinished", 0), Ev("timeout", 0)}
       /\ LastEvents(4)[4] = Ev("syncFinished", 0)
       /\ PoolCancelled(workers)
       /\ ~store.syncing

\* C16: on a successful stage sequence the pool is cancelled, then progress
\* 100 is put, then syncMainSaga waits until syncAnimationFinished is taken or
\* the 1000 ms delay is over, then puts syncFinished: syncFinished is never
\* put before one of the two happened, and once the wait has begun it is
\* eventually put, whether or not syncAnimationFinished arrives.
C16_Epilogue ==
  /\ []EpilogueOrder
  /\ (pc = "race") ~> (pc = "done" /\ CountEv("syncFinished") = 1)

\* syncFinished put after the delay won the race
C16_Witness ==
  /\ pc = "done"
  /\ Len(events) >= 4
  /\ LastEvents(2) = <<Ev("timeout", 0), Ev("syncFinished", 0)>>
  /\ outcomes[Len(outcomes)] = "complete"
  /\ Len(outcomes) > 1

\* syncMainSaga is not running: before the first attempt, between attempts
\* or after the last
MainTerminated == pc \in {"loop", "delay", "authorized", "done"}

Terminations == CountEv("retry") + CountEv("syncError") + CountEv("syncFinished")

\* C17: an exception raised in the stage sequence after the pool was forked
\* cancels the pool and reaches syncSaga, which retries or surfaces it (it is
\* not swallowed); whenever syncMainSaga has terminated, by success or by
\* exception, its pool is cancelled.
C17_FailurePath ==
  /\ (MainTerminated /\ CountEv("run") > 0) => PoolCancelled(workers)
  /\ MainTerminated =>
       /\ Len(outcomes) = CountEv("run")
       /\ Terminations = CountEv("run")
       /\ Cardinality({i \in 1..Len(outcomes) : outcomes[i] = "throw"}) =
            CountEv("retry") + CountEv("syncError")
  /\ ~MainTerminated =>
       /\ Len(outcomes) = CountEv("run") - 1
       /\ (pc # "race") => ~PoolCancelled(workers)

\* an attempt that failed while jobs were with the pool
C17_Witness ==
  /\ pc = "delay"
  /\ PoolCancelled(workers)
  /\ requestChannel # <<>>
  /\ outcomes = <<"throw">>

\* an attempt starts: syncMainSaga runs up to its first asynchronous call
AttemptStarts == pc = "authorized" /\ pc' = "getUser"

\* the jobs of the current stage that are with the pool or were taken from it
InPool ==
  Len(requestChannel) + Cardinality({w \in DOMAIN workers : workers[w].job # NoJob})
    + Len(responseChannel)

\* C18: every attempt sets up a new pool (idle workers, an empty request
\* channel and an empty response channel) and starts with syncingProgress 0;
\* the pool of the attempt before is cancelled by then, and what the channels
\* hold during an attempt was submitted by that attempt.
C18_FreshRun ==
  /\ [][AttemptStarts =>
          /\ PoolCancelled(workers)
          /\ workers' = setupWorkers(REQUEST_WORKERS)
          /\ \A w \in DOMAIN workers' : workers'[w] = Idle
          /\ requestChannel' = <<>>
          /\ responseChannel' = <<>>
          /\ FracEq(store'.syncingProgress, Whole(0))
          /\ store'.syncing
          /\ runLog' = <<Whole(0), Whole(5)>>]_vars
  /\ [](pc \in StagePcs => InPool + fetched = submitted)

\* the second attempt has started
C18_Witness ==
  /\ pc = "getUser"
  /\ CountEv("run") = 2
  /\ outcomes = <<"throw">>
  /\ requestChannel = <<>>
  /\ FracEq(store.syncingProgress, Whole(0))

\* the fields of the store a stage of syncMainSaga writes beside progress
Written(state) ==
  [artistAffinity |-> state.artistAffinity, lastFmData |-> state.lastFmData,
   topArtistsData |-> state.topArtistsData]

\* C19: when an attempt fails and is retried, what the failed attempt wrote
\* to the store (artistAffinity, topArtistsData, lastFmData) has, at the
\* start of the next attempt, the value it had before the failed attempt.
\* Every attempt before a retry failed, so by induction that value is the one
\* before the first attempt.
C19_NoCarryOver ==
  (pc \in {"delay", "loop", "authorized"}) => Written(store) = Written(initialState)

\* what the code does: syncStart leaves the three fields alone, so the next
\* attempt starts with what the failed attempts stored
C19_CarriedOver ==
  [][AttemptStarts => Written(store') = Written(store)]_vars

\* a retry that starts with the top artists data of the failed attempt
C19_Stale ==
  /\ pc = "getUser"
  /\ CountEv("run") = 2
  /\ store.topArtistsData = "payload"
  /\ store.artistAffinity = {"topArtists"}

\* the response request() got last
LastAnswer == req.answers[Len(req.answers)]

\* a response that is neither 2xx nor 429
IsFailure(response) ==
  /\ ~(response.status \in 200..299)
  /\ response.status # 429

\* C20: a response that is not 2xx and not 429 makes request() throw a
\* FetchError without another fetch: the error's status is the response's,
\* its message the body's error.message if the body is JSON that carries one
\* and 'HTTP Error <status>' otherwise; nothing else makes it throw.
C20_FetchError ==
  /\ (req.answers # <<>> /\ IsFailure(LastAnswer)) =>
       /\ req.pc = "thrown"
       /\ Len(req.fetches) = Len(req.answers)
       /\ Len(req.fetches) = Count429 + 1
       /\ req.error.name = "FetchError"
       /\ req.error.status = LastAnswer.status
       /\ req.error.message =
            (IF LastAnswer.json = "message" THEN <<"message">>
             ELSE <<"HTTP Error", LastAnswer.status>>)
       /\ req.result = NoBody
       /\ ~ENABLED NextRequest
  /\ req.pc = "thrown" =>
       /\ req.answers # <<>>
       /\ IsFailure(LastAnswer)
       /\ \A i \in 1..(Len(req.answers) - 1) : req.answers[i].status = 429

\* the first response is a failure with a message in its body
C20_Witness ==
  /\ req.pc = "thrown"
  /\ Len(req.fetches) = 1
  /\ LastAnswer.status = 401
  /\ req.error.message = <<"message">>

\* a failure without JSON after one replay
C20_WitnessDefault ==
  /\ req.pc = "thrown"
  /\ Len(req.fetches) = 2
  /\ LastAnswer.status = 500
  /\ LastAnswer.json = "none"
  /\ req.error.message = <<"HTTP Error", 500>>

(***************************************************************************)
(* One attempt in which only the optional fetches can fail: a request of   *)
(* the top-artists loops, the Last.fm request, or the call itself.         *)
(***************************************************************************)
InitOptional ==
  /\ SyncAtRest
  /\ settings \in {st \in SettingsSet : st.lastFmSync => st.lastFmEnabled}
  /\ req = NoRequest
  /\ pager = NoPager
  /\ paged = NoPaged
  /\ mergeCase = NoMerge
  /\ scoring = NoScoring
  /\ loader = NoLoader
  /\ ranking = NoRanking
  /\ releases = NoReleases
  /\ history = NoHistory
  /\ syncAction = NoPayload
  /\ extra = NoExtra

NextOptional ==
  \/ SagaLoop
  \/ SyncMainStart
  \/ GetUserResolves
  \/ \E list \in RunArtistLists : GetArtistsReturns(list)
  \/ Step2
  \/ \E failMedium \in FailAts, failLong \in FailAts :
       TopArtistsReturns(failMedium, failLong)
  \/ TopArtistsThrows
  \/ Step3
  \/ \E outcome \in LastFmOutcomes : LastFmReturns(outcome)
  \/ LastFmThrows
  \/ Step5
  \/ BaseSubmit
  \/ BaseTake
  \/ BaseReturn
  \/ ExtraSubmit
  \/ ExtraTake
  \/ ExtraReturn
  \/ Finalize
  \/ AnimationFinished
  \/ AnimationTimeout
  \/ \E w \in DOMAIN workers : WorkerTake(w)
  \/ \E w \in DOMAIN workers : WorkerResult(w)
  \/ \E w \in DOMAIN workers : WorkerError(w)

SpecOptional == InitOptional /\ [][NextOptional]_vars

\* every step the attempt can take is taken in the end
SpecOptionalFair == SpecOptional /\ WF_vars(NextOptional)

TopArtistsFailed == "topArtists" \in optional.failed
LastFmFailed == "lastFm" \in optional.failed

\* the failed attempt goes on and ends with syncFinished, no error is shown
RunGoesOn ==
  /\ CountEv("showErrorMessage") = 0
  /\ CountEv("syncError") = 0
  /\ outcomes \in {<<>>, <<"complete">>}
  /\ pc = "done" => CountEv("syncFinished") = 1

\* C21: when the top-artists fetch or the Last.fm fetch of a run has failed,
\* the run goes on to syncFinished without showErrorMessage or syncError,
\* the failed feature gives no contributor a score (its score source is
\* empty) and its finished-signal (syncTopArtistsFinished,
\* syncLastFmFinished) has not been put.
C21_OptionalDegraded ==
  /\ TopArtistsFailed =>
       /\ RunGoesOn
       /\ DOMAIN optional.artistAffinity = {}
       /\ store.topArtistsData = "null"
  /\ LastFmFailed =>
       /\ RunGoesOn
       /\ optional.lastFmArtists = <<>>
       /\ store.lastFmData = "null"

\* what the code keeps of C21: the run goes on, and a failed Last.fm
\* request leaves an empty secondary source
C21_RunGoesOn ==
  /\ optional.failed # {} => RunGoesOn
  /\ LastFmFailed => optional.lastFmArtists = <<>>

\* the run that failed an optional fetch reaches syncFinished
C21_Proceeds == (optional.failed # {}) ~> (pc = "done" /\ CountEv("syncFinished") = 1)

\* a run whose second top-artists request failed has put
\* syncTopArtistsFinished and scores the artists of the first page
C21_SignalAfterFailure ==
  /\ pc = "done"
  /\ TopArtistsFailed
  /\ store.topArtistsData = "payload"
  /\ 1 \in DOMAIN optional.artistAffinity

\* a run whose Last.fm request failed has put syncLastFmFinished
C21_LastFmSignalAfterFailure ==
  /\ pc = "done"
  /\ LastFmFailed
  /\ store.lastFmData = "payload"
  /\ optional.lastFmArtists = <<>>

(***************************************************************************)
(* The backoff of the outer retry loop.                                    *)
(***************************************************************************)
\* the positions of the waits in the event log, in order
DelayPositions == SetToSeq({i \in 1..Len(events) : events[i].e = "delay"})

Throws == Cardinality({i \in 1..Len(outcomes) : outcomes[i] = "throw"})

OnTheLine(value, floor, ceiling, k, n) ==
  value[1] * n = value[2] * (floor * n + k * (ceiling - floor))

\* up to position last the log holds the stage's announcement followed by
\* one value per response taken, the k-th of them on the line from floor to
\* ceiling
FanOutLog(last, announced, floor, ceiling, done, n) ==
  /\ last > done
  /\ runLog[last - done] = Whole(announced)
  /\ \A k \in 1..done : OnTheLine(runLog[last - done + k], floor, ceiling, k, n)

\* C23: a fan-out over N >= 1 items with band [floor, ceiling] emits one
\* progress value right after each response it takes, error or not, the
\* k-th being floor + (k / N) * (ceiling - floor) and so the N-th the
\* ceiling, N values in all; a fan-out over no items emits none.
C23_FanOutProgress ==
  /\ pc = "syncBaseData" =>
       /\ TakenCount("getArtistAlbums") = fetched
       /\ FanOutLog(Len(runLog), BASE_FLOOR, BASE_FLOOR, BaseCeiling, fetched, Len(artists))
       /\ (fetched = Len(artists) /\ fetched >= 1) =>
            FracEq(runLog[Len(runLog)], Whole(BaseCeiling))
  /\ pc = "syncExtraData" =>
       /\ TakenCount("getFullAlbums") = fetched
       /\ FanOutLog(Len(runLog), 75, EXTRA_FLOOR, CEILING, fetched, chunks)
       /\ (fetched = chunks /\ fetched >= 1) =>
            FracEq(runLog[Len(runLog)], Whole(CEILING))
  /\ (pc = "step7" /\ settings.fullAlbumData) =>
       /\ TakenCount("getFullAlbums") = chunks
       /\ FanOutLog(Len(runLog), 75, EXTRA_FLOOR, CEILING, chunks, chunks)
       /\ FanOutLog(Len(runLog) - chunks - 2, BASE_FLOOR, BASE_FLOOR, BASE_CEILING_FULL,
                    Len(artists), Len(artists))
  /\ (pc = "step7" /\ ~settings.fullAlbumData) =>
       /\ TakenCount("getArtistAlbums") = Len(artists)
       /\ FanOutLog(Len(runLog) - 1, BASE_FLOOR, BASE_FLOOR, CEILING,
                    Len(artists), Len(artists))

\* five chunks, one of them failed: the five values 74, 78, 82, 86, 90
C23_Witness ==
  /\ pc = "syncExtraData"
  /\ chunks = 5
  /\ fetched = 5
  /\ Failures("getFullAlbums") # {}
  /\ SubSeq(runLog, Len(runLog) - 4, Len(runLog)) =
       <<Frac(370, 5), Frac(390, 5), Frac(410, 5), Frac(430, 5), Frac(450, 5)>>

\* no artist: syncBaseData returns having emitted nothing after its stage
C23_WitnessNone ==
  /\ pc = "step7"
  /\ ~settings.fullAlbumData
  /\ artists = <<>>
  /\ SubSeq(runLog, Len(runLog) - 1, Len(runLog)) = <<Whole(BASE_FLOOR), Whole(70)>>

(***************************************************************************)
(* The stage bands of a run.  A step of a fan-out loop that takes a        *)
(* response emits a progress value of the running stage; the values every  *)
(* other step emits announce stages.                                       *)
(***************************************************************************)
TakesResponse == pc \in {"syncBaseData", "syncExtraData"} /\ fetched' = fetched + 1

\* the run ends in the catch block
RunThrows == Len(outcomes') > Len(outcomes) /\ outcomes'[Len(outcomes')] = "throw"

\* the positions of the log at which this step of a run announces stages
Announced ==
  IF TakesResponse \/ RunThrows THEN {}
  ELSE IF pc = "authorized" THEN 1..Len(runLog')
  ELSE (Len(runLog) + 1)..Len(runLog')

\* every stage this step announces starts at or above all that was emitted
\* before it
FloorsAboveEarlier ==
  \A j \in Announced : \A i \in 1..(j - 1) : FracLe(runLog'[i], runLog'[j])

\* C24: whichever of enableSmartSort, Last.fm sync, fullAlbumData and
\* trackHistory are enabled, the stage bands of a successful run are
\* monotonic and do not overlap: the floor a stage announces is at or above
\* every progress value emitted before it, the floors run from 0 to 100 so
\* that the bands cover [0, 100] whatever stages are skipped, and the last
\* value emitted is 100.
C24_StageBands ==
  /\ [][FloorsAboveEarlier]_vars
  /\ [](RunSucceeded =>
          /\ runLog[1] = Whole(0)
          /\ runLog[Len(runLog)] = Whole(100))

\* what the code keeps of C24: with fullAlbumData enabled every announced
\* floor is at or above what was emitted before it, and every successful
\* run starts at 0 and ends at 100
C24_FloorsWithExtraData ==
  /\ [][settings.fullAlbumData => FloorsAboveEarlier]_vars
  /\ [](RunSucceeded =>
          /\ runLog[1] = Whole(0)
          /\ runLog[Len(runLog)] = Whole(100))

\* without fullAlbumData the base stage has run up to 90 when
\* 'Processing albums...' is announced at 70
C24_FloorBelowEarlier ==
  /\ pc = "step7"
  /\ ~settings.fullAlbumData
  /\ Len(artists) = 1
  /\ SubSeq(runLog, Len(runLog) - 2, Len(runLog)) = <<Whole(25), Frac(90, 1), Whole(70)>>

(***************************************************************************)
(* The order of the stages of a run.                                       *)
(***************************************************************************)
\* the stage names of syncMainSaga in the order of its code
StageOrder ==
  <<"Initializing...", "Loading user profile...", "Loading artists...",
    "Analyzing listening preferences...", "Syncing Last.fm data...",
    "Loading new releases...", "Processing albums...", "Loading detailed album info...",
    "Calculating recommendations...", "Updating history...", "Complete!">>

StageIndex(name) == CHOOSE i \in 1..Len(StageOrder) : StageOrder[i] = name

\* whether the run has the stage: the optional ones by their feature
StageEnabled(name) ==
  CASE name = "Analyzing listening preferences..." -> settings.enableSmartSort
    [] name = "Syncing Last.fm data..." -> settings.lastFmEnabled /\ settings.lastFmSync
    [] name = "Loading detailed album info..." -> settings.fullAlbumData
    [] name = "Calculating recommendations..." ->
         settings.enableSmartSort \/ settings.lastFmEnabled
    [] name = "Updating history..." -> settings.trackHistory
    [] OTHER -> TRUE

\* the stages of the run itself: the retry stage of syncSaga comes last
RunStages ==
  IF stageLog # <<>> /\ stageLog[Len(stageLog)] = "Retrying..."
  THEN SubSeq(stageLog, 1, Len(stageLog) - 1)
  ELSE stageLog

\* a job of the named function is in the pool or was taken by a worker
Submitted(fn) ==
  \/ \E i \in 1..Len(requestChannel) : requestChannel[i].fn = fn
  \/ \E job \in DOMAIN executed : job.fn = fn

\* C25: the stages of a run start in the order Init, LoadUser, LoadArtists,
\* [LoadTopArtists], [LoadListeningHistory], LoadBaseCatalogData,
\* MergeAndFilter, [LoadExtendedCatalogData], [ComputeAffinity],
\* [UpdateHistoryTracking], Finalize: the names put are a subsequence of
\* that order, an optional one among them exactly when its feature is
\* enabled, and no job of the extended-data stage is submitted before every
\* response of the base stage has been taken.
C25_StageSequence ==
  LET stages == RunStages
  IN /\ \A i \in 1..Len(stages) : stages[i] \in SeqToSet(StageOrder)
     /\ \A i \in 1..(Len(stages) - 1) : StageIndex(stages[i]) < StageIndex(stages[i + 1])
     /\ stages # <<>> =>
          \A k \in 1..StageIndex(stages[Len(stages)]) :
            StageOrder[k] \in SeqToSet(stages) <=> StageEnabled(StageOrder[k])
     /\ RunSucceeded => stages[Len(stages)] = "Complete!"
     /\ Submitted("getFullAlbums") =>
          /\ TakenCount("getArtistAlbums") = Len(artists)
          /\ ~\E i \in 1..Len(requestChannel) : requestChannel[i].fn = "getArtistAlbums"
          /\ ~\E i \in 1..Len(responseChannel) :
                responseChannel[i].job.fn = "getArtistAlbums"
          /\ "Loading detailed album info..." \in SeqToSet(stages)

\* Last.fm enabled without its sync, the other features off: eight stages
C25_Witness ==
  /\ RunSucceeded
  /\ Submitted("getFullAlbums")
  /\ Len(artists) = 2
  /\ stageLog =
       <<"Initializing...", "Loading user profile...", "Loading artists...",
         "Loading new releases...", "Processing albums...",
         "Loading detailed album info...", "Calculating recommendations...", "Complete!">>

(***************************************************************************)
(* One call of getArtists, for every choice of the artist sources, of the  *)
(* blocklist and of the sources whose fetch would fail.                    *)
(***************************************************************************)
InitArtists ==
  /\ SyncAtRest
  /\ settings = DefaultSettings
  /\ req = NoRequest
  /\ pager = NoPager
  /\ paged = NoPaged
  /\ mergeCase = NoMerge
  /\ scoring = NoScoring
  /\ ranking = NoRanking
  /\ releases = NoReleases
  /\ history = NoHistory
  /\ syncAction = NoPayload
  /\ extra = NoExtra
  /\ \E artistSources \in SUBSET ArtistSources, blockedArtists \in SUBSET ArtistIds,
        failing \in SUBSET ArtistSources :
       loader = LoaderCalled(artistSources, blockedArtists, failing)

NextArtists ==
  \/ GetArtistsYields
  \/ GetArtistsResumes
  \/ GetArtistsCollects

SpecArtists == InitArtists /\ [][NextArtists]_vars

\* the page function each source loop submits to the pool
PageFunction ==
  [FOLLOWED |-> "getUserFollowedArtistsPage", SAVED_TRACKS |-> "getUserSavedTracksPage",
   SAVED_ALBUMS |-> "getUserSavedAlbumsPage"]

\* the loop of the source has run: it submitted a request for its first
\* page and took a response to a job of its own
LoopRan(source) ==
  /\ Submitted(PageFunction[source])
  /\ TakenOf(PageFunction[source]) # {}

C26_NoLoopRuns ==
  /\ requestChannel = <<>>
  /\ responseChannel = <<>>
  /\ executed = EmptyBag
  /\ taken = EmptyBag
  /\ loader.pc \in {"resumed", "returned"} =>
       \A i \in 1..Len(loader.results) : ~IsArray(loader.results[i])

\* the three sources enabled: getArtists has returned, the saga was resumed
\* with the three effect descriptors
C26_EffectsNeverRun ==
  /\ loader.pc = "returned"
  /\ loader.artistSources = ArtistSources
  /\ loader.results =
       <<call("getUserFollowedArtists"), call("getUserSavedTracksArtists"),
         call("getUserSavedAlbumsArtists")>>

(***************************************************************************)
(* The list getArtists returns.                                            *)
(***************************************************************************)
\* the artists the enabled sources return, a failing source returning []
ExpectedArtists ==
  UNION {SeqToSet(SourceResult(source, loader.failing)) : source \in loader.artistSources}

\* C27: getArtists runs the fetch of every enabled source, waits for all of
\* them and returns the union of the artists they returned, each id once
\* and none from the blocklist; a source whose fetch fails contributes the
\* empty list and does not fail the others.
C27_LoadArtists ==
  loader.pc = "returned" =>
    /\ SeqToSet(loader.result) = ExpectedArtists \ loader.blockedArtists
    /\ \A id \in SeqToSet(loader.result) : CountOf(loader.result, id) = 1

\* what the code does: it returns the empty list, whatever the sources hold
C27_ReturnsNothing ==
  loader.pc = "returned" =>
    /\ loader.result = <<>>
    /\ Len(loader.results) = Cardinality(loader.artistSources)

\* three healthy sources that hold the artists 1 and 2, nothing blocked:
\* getArtists returns no artist
C27_ArtistsLost ==
  /\ loader.pc = "returned"
  /\ loader.artistSources = ArtistSources
  /\ loader.failing = {}
  /\ loader.blockedArtists = {}
  /\ ExpectedArtists = {1, 2}
  /\ loader.result = <<>>

(***************************************************************************)
(* The merge and the build for the two orders in which two responses can   *)
(* arrive.                                                                 *)
(***************************************************************************)
\* an AlbumsMap as a function of the album id
ById(albumsSeq) ==
  [id \in {albumsSeq[k].id : k \in 1..Len(albumsSeq)} |->
     albumsSeq[CHOOSE k \in 1..Len(albumsSeq) : albumsSeq[k].id = id]]

\* the AlbumsMap of the same raw albums taken in the other order
OtherOrder ==
  buildAlbumsMap(mergeAlbumsRaw(<<mergeCase.albumsRaw[2], mergeCase.albumsRaw[1]>>,
                                mergeCase.minDate),
                 mergeCase.artists)

\* C28: whichever of the two orders the raw albums arrive in, mergeAlbumsRaw
\* followed by buildAlbumsMap gives the same album map: the same ids and for
\* each id the same roles with the same contributors, in the same order.
C28_OrderIndependent ==
  mergeCase.pc = "built" => ById(mergeCase.albums) = ById(OtherOrder)

NamesOf(ids) == [i \in 1..Len(ids) |-> ArtistName(ids[i])]

\* what the code keeps of C28: the same ids, the same roles in the same
\* order, in each role the same contributors with the same sequence of
\* names, and the same other artists
C28_SameUpToEqualNames ==
  mergeCase.pc = "built" =>
    LET this == ById(mergeCase.albums)
        other == ById(OtherOrder)
    IN /\ DOMAIN this = DOMAIN other
       /\ \A id \in DOMAIN this :
            /\ Len(this[id].artists) = Len(other[id].artists)
            /\ \A r \in 1..Len(this[id].artists) :
                 /\ this[id].artists[r].group = other[id].artists[r].group
                 /\ SeqToSet(this[id].artists[r].ids) = SeqToSet(other[id].artists[r].ids)
                 /\ NamesOf(this[id].artists[r].ids) = NamesOf(other[id].artists[r].ids)
            /\ this[id].otherArtists = other[id].otherArtists
            /\ this[id].releaseDate = other[id].releaseDate

\* the artists 1 and 3, of one name, on one album in one role: the album
\* lists them in the order of arrival
C28_ArrivalOrderKept ==
  /\ mergeCase.pc = "built"
  /\ Len(mergeCase.albums) = 1
  /\ mergeCase.albums[1].artists = <<Entry("album", <<3, 1>>)>>
  /\ OtherOrder[1].artists = <<Entry("album", <<1, 3>>)>>

(***************************************************************************)
(* The order buildAlbum gives the roles and their contributors.            *)
(***************************************************************************)
\* C29: in every album buildAlbum makes, the roles of album.artists are in
\* the order of the role-priority index (AlbumGroupIndex), the contributors
\* of each role are in ascending order of name, and album.otherArtists is
\* the list of the album's artists of record whose id is in no role list,
\* in the order of the record.
C29_CanonicalOrder ==
  mergeCase.pc = "built" =>
    \A k \in 1..Len(mergeCase.albums) :
      LET album == mergeCase.albums[k]
          albumRaw == mergeCase.result[k]
          InNoRole(artist) == artist \notin RoleArtists(album)
      IN /\ \A r \in 1..(Len(album.artists) - 1) :
              AlbumGroupIndex[album.artists[r].group]
                < AlbumGroupIndex[album.artists[r + 1].group]
         /\ \A r \in 1..Len(album.artists) :
              \A i \in 1..(Len(album.artists[r].ids) - 1) :
                ArtistName(album.artists[r].ids[i]) <= ArtistName(album.artists[r].ids[i + 1])
         /\ {album.artists[r].group : r \in 1..Len(album.artists)} =
              {albumRaw.artistIds[r].group : r \in 1..Len(albumRaw.artistIds)}
         /\ album.otherArtists = SelectSeq(albumRaw.albumArtists, InNoRole)

\* the merged raw album lists the role appears_on before album, the built
\* album lists album first; artist 4 of the record is in no role
C29_Witness ==
  /\ mergeCase.pc = "built"
  /\ mergeCase.result[1].artistIds = <<Entry("appears_on", <<1>>), Entry("album", <<3>>)>>
  /\ mergeCase.result[1].albumArtists = <<3, 4>>
  /\ mergeCase.albums[1].artists = <<Entry("album", <<3>>), Entry("appears_on", <<1>>)>>
  /\ mergeCase.albums[1].otherArtists = <<4>>

\* artist 1 arrived before artist 2, whose name comes first
C29_WitnessNames ==
  /\ mergeCase.pc = "built"
  /\ mergeCase.result[1].artistIds = <<Entry("single", <<1, 2>>)>>
  /\ mergeCase.albums[1].artists = <<Entry("single", <<2, 1>>)>>

(***************************************************************************)
(* A calculator constructed from a primary score map and a Last.fm list,   *)
(* then asked for the score of one contributor.                            *)
(***************************************************************************)
MaxLastFm == 2
LastFmNames == {"ABBA", "Blur"}

LastFmLists ==
  UNION {[1..n -> [name : LastFmNames, playcount : Playcounts]] : n \in 0..MaxLastFm}

InitAffinity ==
  /\ SyncAtRest
  /\ settings = DefaultSettings
  /\ req = NoRequest
  /\ pager = NoPager
  /\ paged = NoPaged
  /\ mergeCase = NoMerge
  /\ loader = NoLoader
  /\ ranking = NoRanking
  /\ releases = NoReleases
  /\ history = NoHistory
  /\ syncAction = NoPayload
  /\ extra = NoExtra
  /\ \E spotifyAffinity \in UNION {[D -> ScoreValues] : D \in SUBSET ScoredIds},
        lastFmTopArtists \in LastFmLists, artist \in Contributors :
       scoring = CalculatorWanted(spotifyAffinity, lastFmTopArtists, artist)

NextAffinity ==
  \/ CalculatorConstructed
  \/ ScoreReturns

SpecAffinity == InitAffinity /\ [][NextAffinity]_vars

\* the first artist of the Last.fm list has the largest playcount of the
\* list, as in a list sorted by playcount
LargestFirst(lastFmTopArtists) ==
  \A i \in 1..Len(lastFmTopArtists) :
    lastFmTopArtists[i].playcount <= lastFmTopArtists[1].playcount

\* C30: for every primary score map with values in [0,100] and every
\* Last.fm list, in whatever order and with whatever playcounts, the score
\* getAffinityScore returns for a contributor lies in [0,100].
C30_AffinityRange ==
  scoring.pc = "returned" =>
    /\ FracLe(Whole(0), scoring.result)
    /\ FracLe(scoring.result, Whole(100))

\* what holds: the score is never negative, and it is at most 100 when no
\* artist of the list has more plays than the first
C30_RangeWhenLargestFirst ==
  scoring.pc = "returned" =>
    /\ FracLe(Whole(0), scoring.result)
    /\ LargestFirst(scoring.calculator.lastFmTopArtists)
         => FracLe(scoring.result, Whole(100))

\* Blur with 1 play listed before ABBA with 10: ABBA's Last.fm score is
\* 10 / 1 * 50 + 48 = 548, and with the primary score 100 the blend is 279.2
C30_AboveHundred ==
  /\ scoring.pc = "returned"
  /\ scoring.calculator.lastFmTopArtists =
       <<[name |-> "Blur", playcount |-> 1], [name |-> "ABBA", playcount |-> 10]>>
  /\ scoring.artist.name = "Abba"
  /\ PrimaryScore = 100
  /\ scoring.calculator.lastFmAffinityMap["abba"] = 548
  /\ FracEq(scoring.result, Frac(2792, 10))

\* a list in the order of the playcounts: the first artist scores 50 + 49
C30_SortedList ==
  /\ scoring.pc = "returned"
  /\ scoring.calculator.lastFmTopArtists =
       <<[name |-> "ABBA", playcount |-> 10], [name |-> "Blur", playcount |-> 2]>>
  /\ scoring.artist.name = "ABBA"
  /\ PrimaryScore = 0
  /\ FracEq(scoring.result, Whole(99))

(***************************************************************************)
(* The two components of a Last.fm score.                                  *)
(***************************************************************************)
\* the largest playcount of the list, 0 for the empty list
ListMaximum(lastFmTopArtists) ==
  IF lastFmTopArtists = <<>> THEN 0
  ELSE CHOOSE m \in {lastFmTopArtists[i].playcount : i \in 1..Len(lastFmTopArtists)} :
         \A i \in 1..Len(lastFmTopArtists) : lastFmTopArtists[i].playcount <= m

\* the position the score of a key was computed at: the last artist of the
\* list with that lower-cased name
RankOf(lastFmTopArtists, key) ==
  CHOOSE i \in 1..Len(lastFmTopArtists) :
    /\ toLowerCase(lastFmTopArtists[i].name) = key
    /\ \A j \in (i + 1)..Len(lastFmTopArtists) : toLowerCase(lastFmTopArtists[j].name) # key

\* the score of the key minus the position points 50 - rank: the points
\* given for the playcount
PlaycountPoints(calculator, key) ==
  calculator.lastFmAffinityMap[key] - (50 - RankOf(calculator.lastFmTopArtists, key))

Constructed == scoring.pc \in {"called", "returned"} /\ "lastFmTopArtists" \in DOMAIN scoring.calculator

\* C31: for every Last.fm list, each contributor's secondary score is
\* playcountScore + positionScore, where playcountScore is 50 * playcount
\* over the largest playcount of the list and lies in [0,50], and
\* positionScore is 50 - rank (1-based) and lies in [0,50].
C31_ScoreComponents ==
  Constructed =>
    LET list == scoring.calculator.lastFmTopArtists
    IN \A key \in DOMAIN scoring.calculator.lastFmAffinityMap :
         LET rank == RankOf(list, key)
             points == PlaycountPoints(scoring.calculator, key)
         IN /\ 0 <= 50 - rank /\ 50 - rank <= 50
            /\ 0 <= points /\ points <= 50
            /\ ListMaximum(list) > 0 =>
                 points * ListMaximum(list) = 50 * list[rank].playcount

\* what holds: the position points are 50 - rank, the playcount points are
\* never negative, and they are 50 * playcount over the largest playcount,
\* at most 50, whenever the first artist of the list has the largest playcount
C31_ComponentsWhenLargestFirst ==
  Constructed =>
    LET list == scoring.calculator.lastFmTopArtists
    IN \A key \in DOMAIN scoring.calculator.lastFmAffinityMap :
         LET rank == RankOf(list, key)
             points == PlaycountPoints(scoring.calculator, key)
         IN /\ 0 <= 50 - rank /\ 50 - rank <= 50
            /\ 0 <= points
            /\ LargestFirst(list) =>
                 /\ points <= 50
                 /\ ListMaximum(list) > 0 =>
                      points * ListMaximum(list) = 50 * list[rank].playcount

\* Blur with 2 plays listed before ABBA with 10: ABBA gets 10 / 2 * 50 = 250
\* points for the playcount, where 50 * 10 / 10 = 50 are due
C31_DividedByFirst ==
  /\ Constructed
  /\ scoring.calculator.lastFmTopArtists =
       <<[name |-> "Blur", playcount |-> 2], [name |-> "ABBA", playcount |-> 10]>>
  /\ PlaycountPoints(scoring.calculator, "abba") = 250
  /\ PlaycountPoints(scoring.calculator, "blur") = 50

\* the list in the order of the playcounts: 50 + 49 and 10 + 48
C31_LargestFirstList ==
  /\ Constructed
  /\ scoring.calculator.lastFmTopArtists =
       <<[name |-> "ABBA", playcount |-> 10], [name |-> "Blur", playcount |-> 2]>>
  /\ scoring.calculator.lastFmAffinityMap = [abba |-> 99, blur |-> 58]

(***************************************************************************)
(* getUserTopArtistsCombined on windows of a few artists and on windows    *)
(* around the cap.  The medium term serves the artists 1..n, the long term *)
(* the artists 2..m+1, so that an artist has different positions in the    *)
(* two and the first and last are in one window only.                      *)
(***************************************************************************)
MaxWindow == 3

ServedWindow(timeRange, n) ==
  [i \in 1..n |-> IF timeRange = "medium_term" THEN i ELSE i + 1]

\* lengths around the cap, one long window at a time
CapLengths == {TOP_ARTISTS_CAP - 1, TOP_ARTISTS_CAP, TOP_ARTISTS_CAP + 1}
CapFailAts == {NoFailure, 400}

InitRanking ==
  /\ SyncAtRest
  /\ settings = DefaultSettings
  /\ req = NoRequest
  /\ pager = NoPager
  /\ paged = NoPaged
  /\ mergeCase = NoMerge
  /\ scoring = NoScoring
  /\ loader = NoLoader
  /\ releases = NoReleases
  /\ history = NoHistory
  /\ syncAction = NoPayload
  /\ extra = NoExtra
  /\ \/ \E n \in 0..MaxWindow, m \in 0..MaxWindow, failMedium \in FailAts, failLong \in FailAts :
          ranking = RankingCalled(ServedWindow("medium_term", n), failMedium,
                                  ServedWindow("long_term", m), failLong)
     \/ \E n \in CapLengths, failAt \in CapFailAts :
          \/ ranking = RankingCalled(ServedWindow("medium_term", n), failAt,
                                     ServedWindow("long_term", 1), NoFailure)
          \/ ranking = RankingCalled(ServedWindow("medium_term", 1), NoFailure,
                                     ServedWindow("long_term", n), failAt)

NextRanking ==
  \/ \E timeRange \in TimeRanges : TopArtistsPage(timeRange)
  \/ TopArtistsCombine

SpecRanking == InitRanking /\ [][NextRanking]_vars

\* max(1, 100 - p/5) as a fraction over 5
ScoreAt(p) == IF 500 - p >= 5 THEN Frac(500 - p, 5) ELSE Frac(5, 5)

\* the 0-based position of an artist in a window's list, -1 when absent
PositionIn(window, id) ==
  IF \E i \in 1..Len(window.allArtists) : window.allArtists[i] = id
  THEN (CHOOSE i \in 1..Len(window.allArtists) : window.allArtists[i] = id) - 1
  ELSE -1

\* the score a window gives an artist, 0 when the artist is absent from it
WindowScore(window, id) ==
  IF PositionIn(window, id) < 0 THEN Frac(0, 5) ELSE ScoreAt(PositionIn(window, id))

\* the request of the window that fails, if it gets that far
FailsAtOffset(window) ==
  IF window.failAt = NoFailure THEN TOP_ARTISTS_CAP ELSE (window.failAt - 1) * TopPageLimit

\* the loop goes on exactly while every page was full, none failed and the
\* offset is below the cap
WindowStops(window) ==
  \/ window.requests > 0 /\ window.offset < window.requests * TopPageLimit
  \/ window.failAt # NoFailure /\ window.requests >= window.failAt
  \/ window.offset >= TOP_ARTISTS_CAP

WindowAsClaimed(window) ==
  /\ window.allArtists = SubSeq(window.served, 1, window.offset)
  /\ Len(window.allArtists) <= TOP_ARTISTS_CAP
  /\ DOMAIN window.affinityScores = SeqToSet(window.allArtists)
  /\ \A i \in 1..Len(window.allArtists) :
       FracEq(window.affinityScores[window.allArtists[i]], ScoreAt(i - 1))
  /\ window.done <=> WindowStops(window)
  /\ window.done =>
       window.offset = Min(Min(Len(window.served), FailsAtOffset(window)), TOP_ARTISTS_CAP)

C32_WitnessCap ==
  /\ ranking.pc = "returned"
  /\ Len(ranking.windows.medium_term.served) = TOP_ARTISTS_CAP + 1
  /\ Len(ranking.windows.medium_term.allArtists) = TOP_ARTISTS_CAP
  /\ FracEq(ranking.windows.medium_term.affinityScores[TOP_ARTISTS_CAP], Whole(1))
  /\ FracEq(ranking.windows.medium_term.affinityScores[495], Frac(12, 10))

\* a page error at the second request: the first page is kept
C32_WitnessPageError ==
  /\ ranking.pc = "returned"
  /\ ranking.windows.medium_term.served = <<1, 2, 3>>
  /\ ranking.windows.medium_term.failAt = 2
  /\ Len(ranking.windows.medium_term.allArtists) = TopPageLimit

\* the loop taken one request at a time pushes the artists TopArtistsLoop gives
C32_SameAsLoop ==
  ranking.pc \in {"called", "returned"} =>
    \A timeRange \in TimeRanges :
      LET window == ranking.windows[timeRange]
      IN (window.done /\ Len(window.served) <= MaxWindow + 1) =>
           window.allArtists = TopArtistsLoop(window.served, 0, 1, window.failAt)

(***************************************************************************)
(* getOriginalReleases on a releases map of two days.  Albums 2 and 3 have *)
(* the same album group, first artist and name, and differ in affinity     *)
(* when artist 1 has a score.                                              *)
(***************************************************************************)
MaxDayAlbums == 2

ReleaseAlbums ==
  {[id |-> 1, name |-> "a", artists |-> <<Entry("album", <<1>>)>>, otherArtists |-> <<>>],
   [id |-> 2, name |-> "b", artists |-> <<Entry("single", <<2>>)>>, otherArtists |-> <<>>],
   [id |-> 3, name |-> "b", artists |-> <<Entry("single", <<2, 1>>)>>, otherArtists |-> <<>>],
   [id |-> 4, name |-> "a", artists |-> <<Entry("appears_on", <<2>>)>>, otherArtists |-> <<1>>]}

\* the lists of 2..MaxDayAlbums different albums
DayLists ==
  {l \in UNION {[1..n -> ReleaseAlbums] : n \in 2..MaxDayAlbums} :
     \A i \in 1..Len(l) : \A j \in 1..Len(l) : i # j => l[i] # l[j]}

ReleasesMaps ==
  {<<[date |-> first, albums |-> IF first = Today THEN l ELSE <<l[1]>>],
     [date |-> second, albums |-> IF second = Today THEN l ELSE <<l[1]>>]>> :
     l \in DayLists, first \in {Today - 1, Today}, second \in {Today - 1, Today}}

SmartSortWeights == 0..100

ViewSettings ==
  [enableSmartSort : BOOLEAN] \cup [enableSmartSort : BOOLEAN, smartSortWeight : SmartSortWeights]

InitReleases ==
  /\ SyncAtRest
  /\ settings = DefaultSettings
  /\ req = NoRequest
  /\ pager = NoPager
  /\ paged = NoPaged
  /\ mergeCase = NoMerge
  /\ scoring = NoScoring
  /\ loader = NoLoader
  /\ ranking = NoRanking
  /\ history = NoHistory
  /\ syncAction = NoPayload
  /\ extra = NoExtra
  /\ \E releasesMap \in ReleasesMaps, releasesOrder \in ReleasesOrders,
        viewSettings \in ViewSettings, artistAffinity \in [ScoredIds -> {0, 10, 60}] :
       /\ releasesMap[1].date # releasesMap[2].date
       /\ releases = ReleasesCalled(releasesMap, releasesOrder, viewSettings, artistAffinity)

NextReleases == getOriginalReleases

SpecReleases == InitReleases /\ [][NextReleases]_vars

\* the keys other than affinity: (album group,) artist name, album name
PlainKeys(album) ==
  (IF releases.releasesOrder = "albumGroup" THEN <<orderByAlbumGroup(album)>> ELSE <<>>)
  \o <<orderByArtistName(album), Collation[album.name]>>

AffinityOf(album) == calculateAlbumAffinity(album, releases.artistAffinity)

\* affinity descending is the primary key
AffinityPrimary(dayAlbums) ==
  \A i \in 1..(Len(dayAlbums) - 1) :
    /\ AffinityOf(dayAlbums[i]) >= AffinityOf(dayAlbums[i + 1])
    /\ AffinityOf(dayAlbums[i]) = AffinityOf(dayAlbums[i + 1])
         => ~LexLess(PlainKeys(dayAlbums[i + 1]), PlainKeys(dayAlbums[i]))

\* affinity descending is the last tie-break
AffinityLast(dayAlbums) ==
  \A i \in 1..(Len(dayAlbums) - 1) :
    /\ ~LexLess(PlainKeys(dayAlbums[i + 1]), PlainKeys(dayAlbums[i]))
    /\ PlainKeys(dayAlbums[i]) = PlainKeys(dayAlbums[i + 1])
         => AffinityOf(dayAlbums[i]) >= AffinityOf(dayAlbums[i + 1])

\* the albums the releases map holds for a date
AlbumsOn(date) ==
  (CHOOSE entry \in SeqToSet(releases.releasesMap) : entry.date = date).albums

\* the order without any affinity: the plain keys, ties in the order of the map
PlainOrder(date) ==
  orderByAll(AlbumsOn(date), [i \in 1..Len(AlbumsOn(date)) |-> PlainKeys(AlbumsOn(date)[i])])

SmartSortOn == releases.viewSettings.enableSmartSort
WeightConfigured == "smartSortWeight" \in DOMAIN releases.viewSettings

DaysInOrder ==
  /\ Len(releases.result) = Len(releases.releasesMap)
  /\ \A d \in 1..(Len(releases.result) - 1) : releases.result[d].date > releases.result[d + 1].date
  /\ \A d \in 1..Len(releases.result) :
       /\ SeqToSet(releases.result[d].albums) = SeqToSet(AlbumsOn(releases.result[d].date))
       /\ Len(releases.result[d].albums) = Len(AlbumsOn(releases.result[d].date))

\* C33: release days are ordered by date descending; within a day, with
\* smart sort enabled and the configured smartSortWeight >= 50 the albums
\* are ordered by album affinity descending as primary key; with the
\* configured weight < 50, for every value 0..49, affinity is only the last
\* tie-break after (album group,) artist name and album name; with smart
\* sort disabled affinity does not influence the order.
C33_SmartSortThreshold ==
  releases.pc = "returned" =>
    /\ DaysInOrder
    /\ \A d \in 1..Len(releases.result) :
         LET dayAlbums == releases.result[d].albums
         IN /\ (SmartSortOn /\ WeightConfigured /\ releases.viewSettings.smartSortWeight >= 50)
                 => AffinityPrimary(dayAlbums)
            /\ (SmartSortOn /\ WeightConfigured /\ releases.viewSettings.smartSortWeight < 50)
                 => AffinityLast(dayAlbums)
            /\ ~SmartSortOn => dayAlbums = PlainOrder(releases.result[d].date)

\* what holds: the claim for the configured weights 1..100; a configured
\* weight of 0 and a weight not configured make affinity the primary key
C33_ThresholdButZero ==
  releases.pc = "returned" =>
    /\ DaysInOrder
    /\ \A d \in 1..Len(releases.result) :
         LET dayAlbums == releases.result[d].albums
         IN /\ (SmartSortOn /\ WeightConfigured /\ releases.viewSettings.smartSortWeight >= 50)
                 => AffinityPrimary(dayAlbums)
            /\ (SmartSortOn /\ WeightConfigured /\ releases.viewSettings.smartSortWeight \in 1..49)
                 => AffinityLast(dayAlbums)
            /\ (SmartSortOn /\ WeightConfigured /\ releases.viewSettings.smartSortWeight = 0)
                 => AffinityPrimary(dayAlbums)
            /\ (SmartSortOn /\ ~WeightConfigured) => AffinityPrimary(dayAlbums)
            /\ ~SmartSortOn => dayAlbums = PlainOrder(releases.result[d].date)

\* weight 0 configured: album 1 (Blur, affinity 60) comes before album 2
\* (ABBA, affinity 0), which the artist name puts first
C33_ZeroWeightPrimary ==
  /\ releases.pc = "returned"
  /\ SmartSortOn /\ WeightConfigured /\ releases.viewSettings.smartSortWeight = 0
  /\ releases.releasesOrder = "artist"
  /\ releases.artistAffinity = <<60, 0>>
  /\ releases.result[1].date = Today
  /\ releases.result[1].albums[1].id = 1
  /\ releases.result[1].albums[2].id = 2

\* weight 49: the same albums in the order of the artist names
C33_LowWeightByName ==
  /\ releases.pc = "returned"
  /\ SmartSortOn /\ WeightConfigured /\ releases.viewSettings.smartSortWeight = 49
  /\ releases.releasesOrder = "artist"
  /\ releases.artistAffinity = <<60, 0>>
  /\ releases.releasesMap[1].date = Today - 1
  /\ AlbumsOn(Today)[1].id = 1
  /\ releases.result[1].albums[1].id = 2
  /\ releases.result[1].albums[2].id = 1

\* weight 49 and equal names: album 3 (affinity 65) before album 2 (10)
C33_LowWeightTieBreak ==
  /\ releases.pc = "returned"
  /\ SmartSortOn /\ WeightConfigured /\ releases.viewSettings.smartSortWeight = 49
  /\ releases.artistAffinity = <<60, 10>>
  /\ AlbumsOn(Today)[1].id = 2
  /\ releases.result[1].albums[1].id = 3
  /\ releases.result[1].albums[2].id = 2

(***************************************************************************)
(* A sequence of successful synchronizations, each ending with the album   *)
(* map of the run; with trackHistory on, syncMainSaga calls updateHistory  *)
(* on it.                                                                  *)
(***************************************************************************)
MaxSyncs == 3
HistoryIds == 1..3

InitHistory ==
  /\ SyncAtRest
  /\ settings = DefaultSettings
  /\ req = NoRequest
  /\ pager = NoPager
  /\ paged = NoPaged
  /\ mergeCase = NoMerge
  /\ scoring = NoScoring
  /\ loader = NoLoader
  /\ ranking = NoRanking
  /\ releases = NoReleases
  /\ history = NoHistory
  /\ syncAction = NoPayload
  /\ extra = NoExtra

\* a successful run with trackHistory on: step 8 calls updateHistory(albums)
SyncUpdatesHistory(albumIds, persistThrows) ==
  /\ history.syncs < MaxSyncs
  /\ history' =
       [updateHistory(history, albumIds, persistThrows) EXCEPT
          !.syncs = history.syncs + 1,
          !.albums = albumIds,
          !.tracked = TRUE,
          !.earlierNew = history.earlierNew \cup history.albumsNew]
  /\ UNCHANGED <<syncVars, req, pager, paged, mergeCase, scoring, loader, ranking, releases,
                 syncAction, extra>>

\* a successful run with trackHistory off: the stores are left alone
SyncWithoutHistory(albumIds) ==
  /\ history.syncs < MaxSyncs
  /\ history' = [history EXCEPT !.syncs = history.syncs + 1, !.albums = albumIds,
                                !.tracked = FALSE, !.putNewOnly = FALSE]
  /\ UNCHANGED <<syncVars, req, pager, paged, mergeCase, scoring, loader, ranking, releases,
                 syncAction, extra>>

NextHistory ==
  \/ \E albumIds \in SUBSET HistoryIds, persistThrows \in BOOLEAN :
       SyncUpdatesHistory(albumIds, persistThrows)
  \/ \E albumIds \in SUBSET HistoryIds : SyncWithoutHistory(albumIds)

SpecHistory == InitHistory /\ [][NextHistory]_vars

\* C35: after every updateHistory the new set and the history set are
\* disjoint and the new set is a subset of the ids of the albums of that
\* run; an album id that was in the new set after an earlier sync is in the
\* history set and not in the new set; the newOnly filter is switched on
\* only when both sets are non-empty.
C35_HistoryTracking ==
  history.tracked =>
    /\ history.albumsNew \cap history.albumsHistory = {}
    /\ history.albumsNew \subseteq history.albums
    /\ history.earlierNew \subseteq history.albumsHistory
    /\ history.earlierNew \cap history.albumsNew = {}
    /\ history.putNewOnly => history.albumsNew # {} /\ history.albumsHistory # {}

\* third sync: album 1 was new after the first, album 2 after the second,
\* album 3 is new now and the filter is switched on
C35_Witness ==
  /\ history.syncs = 3
  /\ history.tracked
  /\ history.earlierNew = {1, 2}
  /\ history.albumsHistory = {1, 2}
  /\ history.albums = {1, 2, 3}
  /\ history.albumsNew = {3}
  /\ history.putNewOnly

\* the first sync: every album is new, the history is empty, no filter
C35_WitnessFirst ==
  /\ history.syncs = 1
  /\ history.tracked
  /\ history.albumsNew = {1, 2}
  /\ history.albumsHistory = {}
  /\ ~history.putNewOnly

(***************************************************************************)
(* The responses a fan-out stage takes and the jobs it submitted.          *)
(***************************************************************************)
\* the jobs the running stage has put on the request channel
StageJobs ==
  IF pc = "syncBaseData" THEN {Job("getArtistAlbums", artists[i]) : i \in 1..submitted}
  ELSE IF pc = "syncExtraData" THEN {Job("getFullAlbums", k) : k \in 1..submitted}
  ELSE {}

\* the jobs the workers hold
HeldJobs == {workers[w].job : w \in {v \in DOMAIN workers : workers[v].job # NoJob}}

\* what is waiting, running or posted belongs to the running stage
PoolOfStage ==
  /\ \A i \in 1..Len(requestChannel) : requestChannel[i] \in StageJobs
  /\ HeldJobs \subseteq StageJobs
  /\ \A i \in 1..Len(responseChannel) : responseChannel[i].job \in StageJobs

\* the response taken answers a job of the running stage and was not taken before
TakesOwnResponse ==
  TakesResponse =>
    /\ Head(responseChannel).job \in StageJobs
    /\ \A response \in DOMAIN taken : response.job # Head(responseChannel).job

PreviousStores ==
  {initialState,
   [initialState EXCEPT !.albums = <<7>>, !.user = "user", !.lastSync = "earlier"],
   [initialState EXCEPT !.albums = <<7>>, !.user = "user", !.lastSync = "earlier",
                        !.lastAutoSync = "earlier",
                        !.previousSyncMaxDate = <<ReleaseDateOf(7)>>]}

SyncPayloads == {[auto |-> auto] : auto \in BOOLEAN}

\* syncCancel is dispatched while syncSaga runs: the reducer runs and the
\* saga is cancelled together with its pool
SyncCancelled ==
  /\ pc \notin {"done", "cancelled"}
  /\ store' = reducer(store, syncCancel)
  /\ workers' = cancelWorkers(workers)
  /\ events' = Append(events, Ev("syncCancel", 0))
  /\ pc' = "cancelled"
  /\ UNCHANGED <<retryCount, runLog, stageLog, outcomes, requestChannel,
                 responseChannel, executed, dataVars, envVars>>

InitLifecycle ==
  /\ pc = "loop"
  /\ retryCount = 0
  /\ store \in PreviousStores
  /\ runLog = <<>>
  /\ stageLog = <<>>
  /\ events = <<>>
  /\ outcomes = <<>>
  /\ PoolAtRest(NoWorkers)
  /\ DataAtRest
  /\ settings \in RunSettings
  /\ req = NoRequest
  /\ pager = NoPager
  /\ paged = NoPaged
  /\ mergeCase = NoMerge
  /\ scoring = NoScoring
  /\ loader = NoLoader
  /\ ranking = NoRanking
  /\ releases = NoReleases
  /\ history = NoHistory
  /\ syncAction \in SyncPayloads
  /\ extra = NoExtra

NextLifecycle ==
  \/ NextRun
  \/ SyncCancelled

SpecLifecycle == InitLifecycle /\ [][NextLifecycle]_vars

TerminalActions == {"syncFinished", "syncError", "syncCancel"}

\* the step puts an action of the given types as its last action
PutsLast(types) ==
  /\ Len(events') > Len(events)
  /\ events'[Len(events')].e \in types

StoreIdle(state) == ~state.syncing /\ state.syncStage = NoStage

\* syncFinished and syncError put so far
EndingsPut == CountEv("syncFinished") + CountEv("syncError")

LifecycleInStore ==
  /\ pc = "done" => EndingsPut = 1
  /\ pc # "done" => EndingsPut = 0
  /\ ~store.syncing => store.syncStage = NoStage

C36_WitnessRetried ==
  /\ pc = "done"
  /\ outcomes = <<"throw", "complete">>
  /\ CountEv("syncFinished") = 1
  /\ CountEv("syncError") = 0
  /\ StoreIdle(store)

\* cancelled during the wait before a retry
C36_WitnessCancelled ==
  /\ pc = "cancelled"
  /\ CountEv("retry") = 1
  /\ events[Len(events)].e = "syncCancel"
  /\ EndingsPut = 0
  /\ StoreIdle(store)

Kept(state) ==
  <<state.albums, state.user, state.previousSyncMaxDate, state.lastSync,
    state.lastAutoSync>>

\* syncFinished wrote its payload and one of the two time stamps
FinishedWritten ==
  /\ store'.albums = albums
  /\ store'.user = "user"
  /\ store'.previousSyncMaxDate = getReleasesMaxDate(store)
  /\ IF syncAction.auto
     THEN store'.lastAutoSync = Now /\ store'.lastSync = store.lastSync
     ELSE store'.lastSync = Now /\ store'.lastAutoSync = store.lastAutoSync

\* C37: a step changes albums, user, previousSyncMaxDate, lastSync or
\* lastAutoSync of the store only by putting syncFinished; an invocation
\* that put syncError or was ended by syncCancel has put no syncFinished, so
\* the five fields are what they were before it; syncFinished stores its
\* payload and sets lastAutoSync if payload.auto, lastSync otherwise, and
\* leaves the other time stamp alone.
C37_PreviousResultKept ==
  /\ [][Kept(store') # Kept(store) => PutsLast({"syncFinished"})]_vars
  /\ [][PutsLast({"syncFinished"}) => FinishedWritten]_vars
  /\ [](CountEv("syncError") + CountEv("syncCancel") > 0 =>
          /\ CountEv("syncFinished") = 0
          /\ \E previous \in PreviousStores : Kept(store) = Kept(previous))

\* every attempt failed after albums were loaded; the store still holds the
\* result and the time stamp of the earlier synchronization
C37_Witness ==
  /\ pc = "done"
  /\ CountEv("syncError") = 1
  /\ albums # <<>>
  /\ store.albums = <<7>>
  /\ store.lastSync = "earlier"
  /\ store.lastAutoSync = "null"

\* an automatic synchronization finished: lastAutoSync is new, lastSync old
C37_WitnessAuto ==
  /\ pc = "done"
  /\ CountEv("syncFinished") = 1
  /\ syncAction.auto
  /\ store.albums = albums
  /\ albums # <<>>
  /\ store.previousSyncMaxDate = <<ReleaseDateOf(7)>>
  /\ store.lastAutoSync = Now
  /\ store.lastSync = "earlier"

\* cancelled while the albums were being fetched
C37_WitnessCancelled ==
  /\ pc = "cancelled"
  /\ fetched > 0
  /\ store.albums = <<7>>
  /\ store.lastSync = "earlier"

(***************************************************************************)
(* Steps 5 and 6 of syncMainSaga on one album map: deleteArtists after     *)
(* buildAlbumsMap, then, with fullAlbumData, syncExtraData and             *)
(* deleteLabels.  The album map is a function from the ids it holds to     *)
(* the albums; an album's label and popularity are <<>> while undefined    *)
(* and <<value>> once assigned.  Artists are their ids.                    *)
(***************************************************************************)
VARIOUS_ARTISTS_ID == 3

\* the two definitions of syncExtraData in the repository
ExtraSources == {"sagas/sync.js", "enhanced_sync_saga.js"}

Labels == {"Warp", "Ninja Tune"}

\* what the API serves for an album id: label and popularity
LabelOf(id) == IF id % 2 = 1 THEN "Warp" ELSE "Ninja Tune"
PopularityOf(id) == 10 * id

\* an entry of response.albums: an AlbumFull, or null for an id not found
NullEntry == [null |-> TRUE, id |-> 0, label |-> "", popularity |-> 0]
AlbumFull(id) ==
  [null |-> FALSE, id |-> id, label |-> LabelOf(id), popularity |-> PopularityOf(id)]

\* Object.values(album.artists).flat().concat(album.otherArtists).map(id)
AlbumArtistIds(album) == SeqToSet(FlatIds(album.artists)) \cup SeqToSet(album.otherArtists)

hasVariousArtists(album) == VARIOUS_ARTISTS_ID \in AlbumArtistIds(album)

\* the album map without the given ids
Without(albumsMap, ids) == [id \in DOMAIN albumsMap \ ids |-> albumsMap[id]]

\* deleteArtists: shouldDelete looks at the role lists only
deleteArtists_rolesOnly(albumsMap, blockedArtists) ==
  IF Len(blockedArtists) = 0 THEN [albumsMap |-> albumsMap, deletedIds |-> {}]
  ELSE LET shouldDelete(album) ==
             SeqToSet(FlatIds(album.artists)) \cap SeqToSet(blockedArtists) # {}
           deletedIds == {id \in DOMAIN albumsMap : shouldDelete(albumsMap[id])}
       IN [albumsMap |-> Without(albumsMap, deletedIds), deletedIds |-> deletedIds]

\* deleteArtists: the map after the deletions and the ids it returns
deleteArtists(albumsMap, blockedArtists) ==
  IF Len(blockedArtists) = 0 THEN [albumsMap |-> albumsMap, deletedIds |-> {}]
  ELSE LET shouldDelete(album) ==
             AlbumArtistIds(album) \cap SeqToSet(blockedArtists) # {}
           deletedIds == {id \in DOMAIN albumsMap : shouldDelete(albumsMap[id])}
       IN [albumsMap |-> Without(albumsMap, deletedIds), deletedIds |-> deletedIds]

\* blockedLabels[label] === undefined: the label is blocked without flags
Unflagged == [defined |-> FALSE, flags |-> {}]
Flagged(flags) == [defined |-> TRUE, flags |-> flags]

\* the key album.label is looked up under
LabelKey(album) == IF album.label = <<>> THEN "undefined" ELSE album.label[1]

\* deleteLabels: the map after the deletions and the ids it returns
deleteLabels(albumsMap, blockedLabels) ==
  IF DOMAIN blockedLabels = {} THEN [albumsMap |-> albumsMap, deletedIds |-> {}]
  ELSE LET shouldDelete(album) ==
             /\ LabelKey(album) \in DOMAIN blockedLabels
             /\ \/ ~blockedLabels[LabelKey(album)].defined
                \/ /\ "VA" \in blockedLabels[LabelKey(album)].flags
                   /\ hasVariousArtists(album)
           deletedIds == {id \in DOMAIN albumsMap : shouldDelete(albumsMap[id])}
       IN [albumsMap |-> Without(albumsMap, deletedIds), deletedIds |-> deletedIds]

\* Object.assign(albums[id], { label, popularity })
Assigned(albumsMap, albumFull) ==
  [albumsMap EXCEPT ![albumFull.id].label = <<albumFull.label>>,
                    ![albumFull.id].popularity = <<albumFull.popularity>>]

RECURSIVE AssignFullAlbums(_, _)
\* sagas/sync.js: for (const albumFull of response.result), null entries and
\* ids the map lacks skipped; thrown tells whether the loop threw
AssignFullAlbums(albumsMap, result) ==
  IF result = <<>> THEN [albumsMap |-> albumsMap, thrown |-> FALSE]
  ELSE IF Head(result).null THEN AssignFullAlbums(albumsMap, Tail(result))
  ELSE IF Head(result).id \in DOMAIN albumsMap
       THEN AssignFullAlbums(Assigned(albumsMap, Head(result)), Tail(result))
       ELSE AssignFullAlbums(albumsMap, Tail(result))

RECURSIVE AssignFullAlbumsUnguarded(_, _)
\* enhanced_sync_saga.js: the same loop without the two tests; destructuring
\* null and Object.assign(undefined, ...) throw a TypeError
AssignFullAlbumsUnguarded(albumsMap, result) ==
  IF result = <<>> THEN [albumsMap |-> albumsMap, thrown |-> FALSE]
  ELSE IF Head(result).null THEN [albumsMap |-> albumsMap, thrown |-> TRUE]
  ELSE IF Head(result).id \in DOMAIN albumsMap
       THEN AssignFullAlbumsUnguarded(Assigned(albumsMap, Head(result)), Tail(result))
       ELSE [albumsMap |-> albumsMap, thrown |-> TRUE]

ErrorResponse == [error |-> TRUE, result |-> <<>>]
ResultResponse(result) == [error |-> FALSE, result |-> result]

\* the body of the response loop for one response
ExtraResponseTaken(source, albumsMap, response) ==
  IF response.error THEN [albumsMap |-> albumsMap, thrown |-> FALSE]
  ELSE IF source = "sagas/sync.js" THEN AssignFullAlbums(albumsMap, response.result)
  ELSE AssignFullAlbumsUnguarded(albumsMap, response.result)

\* buildAlbumsMap has returned albumsMap
ExtraCalled(source, fullAlbumData, blockedArtists, blockedLabels, albumsMap) ==
  [NoExtra EXCEPT !.pc = "built", !.source = source, !.fullAlbumData = fullAlbumData,
                  !.blockedArtists = blockedArtists, !.blockedLabels = blockedLabels,
                  !.built = albumsMap, !.albumsMap = albumsMap]

\* yield call(deleteArtists, albums, blockedArtists); if (fullAlbumData),
\* syncExtraData is called and submits one request per chunk of 20 ids
ArtistsDeleted ==
  /\ extra.pc = "built"
  /\ LET deleted == deleteArtists(extra.albumsMap, extra.blockedArtists)
     IN extra' =
          [extra EXCEPT !.albumsMap = deleted.albumsMap,
                        !.deletedByArtists = deleted.deletedIds,
                        !.before = deleted.albumsMap,
                        !.chunkCount =
                           IF extra.fullAlbumData
                           THEN ChunkCount(SetToSeq(DOMAIN deleted.albumsMap),
                                           EXTRA_CHUNK_SIZE)
                           ELSE 0,
                        !.pc = IF extra.fullAlbumData THEN "syncExtraData" ELSE "step7"]
  /\ UNCHANGED <<syncVars, req, pager, paged, mergeCase, scoring, loader, ranking,
                 releases, history, syncAction>>

\* const response = yield take(responseChannel) and the loop body
ExtraResponse(response) ==
  /\ extra.pc = "syncExtraData"
  /\ Len(extra.responses) < extra.chunkCount
  /\ LET after == ExtraResponseTaken(extra.source, extra.albumsMap, response)
     IN extra' = [extra EXCEPT !.albumsMap = after.albumsMap,
                               !.responses = Append(@, response),
                               !.pc = IF after.thrown THEN "thrown" ELSE @]
  /\ UNCHANGED <<syncVars, req, pager, paged, mergeCase, scoring, loader, ranking,
                 releases, history, syncAction>>

\* syncExtraData returns
ExtraDataReturns ==
  /\ extra.pc = "syncExtraData"
  /\ Len(extra.responses) = extra.chunkCount
  /\ extra' = [extra EXCEPT !.pc = "deleteLabels"]
  /\ UNCHANGED <<syncVars, req, pager, paged, mergeCase, scoring, loader, ranking,
                 releases, history, syncAction>>

\* yield call(deleteLabels, albums, blockedLabels)
LabelsDeleted ==
  /\ extra.pc = "deleteLabels"
  /\ LET deleted == deleteLabels(extra.albumsMap, extra.blockedLabels)
     IN extra' = [extra EXCEPT !.albumsMap = deleted.albumsMap,
                               !.deletedByLabels = deleted.deletedIds,
                               !.pc = "step7"]
  /\ UNCHANGED <<syncVars, req, pager, paged, mergeCase, scoring, loader, ranking,
                 releases, history, syncAction>>

(***************************************************************************)
(* C38, C39: Steps 5 and 6 on every small album map.                       *)
(***************************************************************************)
MaxEntries == 2

ExtraAlbumIds == 1..2
\* id 3 is an album the map never holds
FullAlbumIds == 1..3

ExtraAlbums(id) ==
  {[id |-> id, releaseDate |-> Today, artists |-> <<Entry(group, <<a>>)>>,
    otherArtists |-> otherArtists, label |-> <<>>, popularity |-> <<>>] :
     group \in {"album", "appears_on"}, a \in {id},
     otherArtists \in {<<>>, <<VARIOUS_ARTISTS_ID>>}}

ExtraMaps == UNION {{m \in [D -> UNION {ExtraAlbums(id) : id \in D}] :
                       \A id \in D : m[id].id = id} : D \in SUBSET ExtraAlbumIds}

BlockedArtistLists == {<<>>, <<1>>, <<VARIOUS_ARTISTS_ID>>, <<1, VARIOUS_ARTISTS_ID>>}

BlockedLabelsSets ==
  UNION {[D -> {Unflagged, Flagged({"VA"})}] : D \in SUBSET Labels}

ExtraEntries == {NullEntry} \cup {AlbumFull(id) : id \in FullAlbumIds}

ExtraResults == UNION {[1..n -> ExtraEntries] : n \in 0..MaxEntries}

ExtraResponses == {ErrorResponse} \cup {ResultResponse(result) : result \in ExtraResults}

InitExtra ==
  /\ SyncAtRest
  /\ settings = DefaultSettings
  /\ req = NoRequest
  /\ pager = NoPager
  /\ paged = NoPaged
  /\ mergeCase = NoMerge
  /\ scoring = NoScoring
  /\ loader = NoLoader
  /\ ranking = NoRanking
  /\ releases = NoReleases
  /\ history = NoHistory
  /\ syncAction = NoPayload
  /\ \E source \in ExtraSources, fullAlbumData \in BOOLEAN,
        blockedArtists \in BlockedArtistLists, blockedLabels \in BlockedLabelsSets,
        albumsMap \in ExtraMaps :
       extra = ExtraCalled(source, fullAlbumData, blockedArtists, blockedLabels,
                           albumsMap)

NextExtra ==
  \/ ArtistsDeleted
  \/ \E response \in ExtraResponses : ExtraResponse(response)
  \/ ExtraDataReturns
  \/ LabelsDeleted

SpecExtra == InitExtra /\ [][NextExtra]_vars

\* everything of an album but label and popularity
OtherFields(album) ==
  [id |-> album.id, releaseDate |-> album.releaseDate, artists |-> album.artists,
   otherArtists |-> album.otherArtists]

\* the response changes nothing by itself: an error, or only null entries
\* and entries whose id the map lacks
Harmless(response) ==
  \/ response.error
  \/ \A i \in 1..Len(response.result) :
       \/ response.result[i].null
       \/ response.result[i].id \notin DOMAIN extra.before

HasNull(response) ==
  ~response.error /\ \E i \in 1..Len(response.result) : response.result[i].null

HasUnknown(response) ==
  /\ ~response.error
  /\ \E i \in 1..Len(response.result) :
       ~response.result[i].null /\ response.result[i].id \notin DOMAIN extra.before

InExtraStage == extra.pc \in {"syncExtraData", "deleteLabels", "thrown"}

ExtraFrame ==
  /\ DOMAIN extra.albumsMap = DOMAIN extra.before
  /\ \A id \in DOMAIN extra.before :
       OtherFields(extra.albumsMap[id]) = OtherFields(extra.before[id])
  /\ (\A i \in 1..Len(extra.responses) : Harmless(extra.responses[i])) =>
       extra.albumsMap = extra.before

\* C38: while syncExtraData works and when it has returned, the album map
\* holds the ids it held when syncExtraData was called, every album differs
\* from what it was at most in label and popularity, the map is unchanged
\* if the responses were errors, null entries and entries of ids the map
\* lacks, and the stage has not been aborted by an exception.
C38_ExtraDataFrame == InExtraStage => (ExtraFrame /\ extra.pc # "thrown")

\* the frame holds in both files, and sagas/sync.js never aborts the stage
C38_FrameButAbort ==
  InExtraStage =>
    /\ ExtraFrame
    /\ extra.pc = "thrown" =>
         /\ extra.source = "enhanced_sync_saga.js"
         /\ \E i \in 1..Len(extra.responses) :
              HasNull(extra.responses[i]) \/ HasUnknown(extra.responses[i])

\* enhanced_sync_saga.js: a null entry aborted the stage
C38_AbortedByNull ==
  /\ extra.pc = "thrown"
  /\ extra.source = "enhanced_sync_saga.js"
  /\ extra.responses = <<ResultResponse(<<AlbumFull(1), NullEntry>>)>>
  /\ extra.albumsMap[1].label = <<LabelOf(1)>>

\* enhanced_sync_saga.js: an entry of an id the map lacks aborted the stage
C38_AbortedByUnknown ==
  /\ extra.pc = "thrown"
  /\ extra.source = "enhanced_sync_saga.js"
  /\ extra.responses = <<ResultResponse(<<AlbumFull(3)>>)>>

\* sagas/sync.js: the same responses are skipped, the album in the map gets
\* its label and the stage returns
C38_SkippedInSyncJs ==
  /\ extra.pc = "deleteLabels"
  /\ extra.source = "sagas/sync.js"
  /\ extra.responses = <<ResultResponse(<<NullEntry, AlbumFull(3)>>)>>
  /\ extra.albumsMap = extra.before
  /\ extra.before # <<>>

\* no album of the map has a blocked artist in a role list or in otherArtists
NoBlockedArtist(albumsMap) ==
  \A id \in DOMAIN albumsMap :
    AlbumArtistIds(albumsMap[id]) \cap SeqToSet(extra.blockedArtists) = {}

\* no album of the map has a label that is blocked without flags
NoBlockedLabel(albumsMap) ==
  \A id \in DOMAIN albumsMap :
    LabelKey(albumsMap[id]) \in DOMAIN extra.blockedLabels =>
      extra.blockedLabels[LabelKey(albumsMap[id])].defined

\* C39: the album map that goes into syncFinished holds no album with a
\* blocked artist id in a role list or in otherArtists and, with
\* fullAlbumData, no album whose label is blocked without flags;
\* deleteArtists returned exactly the ids missing from the map it was given
\* and deleteLabels exactly the ids missing after it, every album left is
\* as it was, and without fullAlbumData deleteLabels removed nothing.
C39_Blocklists ==
  /\ extra.pc \in {"syncExtraData", "deleteLabels", "thrown", "step7"} =>
       /\ NoBlockedArtist(extra.albumsMap)
       /\ extra.deletedByArtists = DOMAIN extra.built \ DOMAIN extra.before
       /\ extra.before = Without(extra.built, extra.deletedByArtists)
       /\ \A id \in extra.deletedByArtists :
            AlbumArtistIds(extra.built[id]) \cap SeqToSet(extra.blockedArtists) # {}
  /\ extra.pc = "step7" =>
       /\ extra.fullAlbumData => NoBlockedLabel(extra.albumsMap)
       /\ DOMAIN extra.albumsMap = DOMAIN extra.before \ extra.deletedByLabels
       /\ extra.deletedByLabels \subseteq DOMAIN extra.before
       /\ \A id \in DOMAIN extra.albumsMap :
            OtherFields(extra.albumsMap[id]) = OtherFields(extra.before[id])
       /\ ~extra.fullAlbumData => extra.deletedByLabels = {}

\* album 1 went for its blocked label, album 2 stays: its label is blocked
\* for various artists only and it has none
C39_Witness ==
  /\ extra.pc = "step7"
  /\ extra.fullAlbumData
  /\ DOMAIN extra.built = {1, 2}
  /\ extra.blockedArtists = <<VARIOUS_ARTISTS_ID>>
  /\ extra.deletedByArtists = {}
  /\ extra.deletedByLabels = {1}
  /\ DOMAIN extra.albumsMap = {2}
  /\ extra.albumsMap[2].label = <<"Ninja Tune">>
  /\ "Ninja Tune" \in DOMAIN extra.blockedLabels

\* album 1 went for the blocked artist in its otherArtists
C39_WitnessOtherArtists ==
  /\ extra.pc = "step7"
  /\ extra.blockedArtists = <<VARIOUS_ARTISTS_ID>>
  /\ extra.deletedByArtists = {1}
  /\ extra.built[1].otherArtists = <<VARIOUS_ARTISTS_ID>>
  /\ DOMAIN extra.albumsMap = {2}

\* the album's chunk failed: it has no label and stays although the label
\* the API would have served is blocked
C39_WitnessNoLabel ==
  /\ extra.pc = "step7"
  /\ extra.fullAlbumData
  /\ extra.responses = <<ErrorResponse>>
  /\ DOMAIN extra.albumsMap = {1}
  /\ extra.albumsMap[1].label = <<>>
  /\ "Warp" \in DOMAIN extra.blockedLabels
  /\ ~extra.blockedLabels["Warp"].defined

====
